---- MODULE Spec2Model ----
(***************************************************************************)
(* Gamification ledger of gamificacao-willow: students (alunos) grouped in *)
(* guilds (guildas) under classes (turmas), activities (atividades),       *)
(* enrollments (matriculas) and the history ledger (historico_xp_pontos).  *)
(*                                                                         *)
(* Every request handler is one atomic action over the database tables.    *)
(* A table is a function from the ids of its rows to records.              *)
(*                                                                         *)
(* Modelling conventions                                                   *)
(*  - academic_score / points_on_completion / valor_pontos_alterado are    *)
(*    Float columns; they are modelled by integers (exact arithmetic).     *)
(*  - badges is a Text column holding json.dumps of a list of strings; it  *)
(*    is modelled by the list itself (a sequence of strings).              *)
(*  - the interpolated default reasons (f-strings naming the activity or   *)
(*    the guild) are modelled by one fixed string per transaction kind.    *)
(*  - a request that raises HTTPException before its first commit leaves   *)
(*    the tables as they were; it is a step that changes last and nops     *)
(*    only, and last.status holds the status code of the response.         *)
(*  - response formatting (_load_aluno_for_response and                    *)
(*    _load_matricula_for_response) reads rows and is taken not to fail.   *)
(*  - last is a history variable: the handler that made the last step, its *)
(*    arguments, its response and the rows of alunos, matriculas, guildas  *)
(*    and the ledger before it ran.  nops counts the requests served.      *)
(*  - sessions holds the requests in flight when the commits of a handler  *)
(*    are separate steps (SpecSteps); it is empty when handlers are atomic.*)
(***************************************************************************)
EXTENDS Integers, Sequences, FiniteSets, TLC

VARIABLES turmas, guildas, alunos, atividades, matriculas, historico, last, nops,
          sessions

vars == <<turmas, guildas, alunos, atividades, matriculas, historico, last, nops,
          sessions>>

(***************************************************************************)
(* Bounds of the model.                                                    *)
(***************************************************************************)
\* rows of alunos, rows of matriculas, and requests served in one behaviour
MaxAlunos == 2
MaxMatriculas == 1
MaxOps == 4

(***************************************************************************)
(* Inputs of the requests.                                                 *)
(***************************************************************************)
\* xp_on_completion and points_on_completion are unvalidated (schemas.py:90-91)
AtividadeRewards ==
    { [xp |-> 150, pts |-> 5], [xp |-> 0, pts |-> 0], [xp |-> -50, pts |-> -5] }
NoMotivo == "<none>"
Scores == {0, 10}
ManualBadges == {"Lider"}

\* guilda_id = None (models.py:47, nullable) and referencia_id = None; no row
\* has this id and no request sends it
NullId == -1

(***************************************************************************)
(* Helpers.                                                                *)
(***************************************************************************)
Range(s) == { s[i] : i \in DOMAIN s }

MaxOf(S) == CHOOSE x \in S : \A y \in S : y <= x

MinOf(S) == CHOOSE x \in S : \A y \in S : x <= y

\* the rows of a query in rowid order
RECURSIVE Ascending(_)
Ascending(S) == IF S = {} THEN << >> ELSE <<MinOf(S)>> \o Ascending(S \ {MinOf(S)})

\* INTEGER PRIMARY KEY of SQLite: the next rowid is the largest one plus 1.
NextId(table) == IF DOMAIN table = {} THEN 1 ELSE MaxOf(DOMAIN table) + 1

\* value if value else default (Python truthiness of Optional[str])
MotivoOr(motivo, default) ==
    IF motivo = NoMotivo \/ motivo = "" THEN default ELSE motivo

HistoricoXPPonto(aluno_id, tipo, xp, pontos, motivo, ent, ref) ==
    [ aluno_id |-> aluno_id, tipo_transacao |-> tipo,
      valor_xp_alterado |-> xp, valor_pontos_alterado |-> pontos,
      motivo |-> motivo, referencia_entidade |-> ent, referencia_id |-> ref ]

Pre == [ alunos |-> alunos, matriculas |-> matriculas, hlen |-> Len(historico),
         guildas |-> guildas, historico |-> historico, turmas |-> turmas ]

\* status is the HTTP status of the response (200 stands for every 2xx);
\* returned is the set of ids of the rows in a response that is a list
Record(op, arg) ==
    [ op |-> op, arg |-> arg, pre |-> Pre, status |-> 200, returned |-> {} ]

(***************************************************************************)
(* Level and level badges.                                                 *)
(***************************************************************************)
\* (xp // 100) + 1; // is floor division, as \div is.
Level(xp) == (xp \div 100) + 1

BADGE_TIERS ==
    << <<100, "Explorador Iniciante">>,
       <<200, "Explorador Bronze">>,
       <<300, "Desbravador Prata">>,
       <<400, "Garimpeiro Ouro">>,
       <<500, "Alma de Platina">>,
       <<600, "Arqueologo de Jaspe">>,
       <<700, "Conquistador de Safira">>,
       <<800, "Conquistador de Esmeralda">>,
       <<900, "Conquistador de Diamante">>,
       <<1000, "Mestre das Gemas">> >>

\* The loop over the sorted tiers, with its break at the first tier above xp.
RECURSIVE ExpectedFrom(_, _)
ExpectedFrom(i, current_xp) ==
    IF i > Len(BADGE_TIERS) THEN << >>
    ELSE IF current_xp >= BADGE_TIERS[i][1]
         THEN <<BADGE_TIERS[i][2]>> \o ExpectedFrom(i + 1, current_xp)
         ELSE << >>

ExpectedBadges(current_xp) == ExpectedFrom(1, current_xp)

\* a variant that awards the missing tier badges and removes none
CheckAndAwardLevelBadges_AwardOnly(db_aluno) ==
    IF \E b \in Range(ExpectedBadges(db_aluno.xp)) : b \notin Range(db_aluno.badges)
    THEN [db_aluno EXCEPT !.badges = ExpectedBadges(db_aluno.xp)]
    ELSE db_aluno

\* _check_and_award_level_badges: the student row after the call.
CheckAndAwardLevelBadges(db_aluno) ==
    IF Range(db_aluno.badges) # Range(ExpectedBadges(db_aluno.xp))
    THEN [db_aluno EXCEPT !.badges = ExpectedBadges(db_aluno.xp)]
    ELSE db_aluno

\* its return value
LevelBadgesChanged(db_aluno) ==
    Range(db_aluno.badges) # Range(ExpectedBadges(db_aluno.xp))

(***************************************************************************)
(* Initial state: one class with one guild and one activity have been      *)
(* created (create_turma, create_guilda, create_atividade with any of the  *)
(* rewards of AtividadeRewards); no student, enrollment or ledger entry.   *)
(***************************************************************************)
Init ==
    /\ turmas = (1 :> [ nome |-> "5A" ])
    /\ guildas = (1 :> [ nome |-> "Fenix", turma_id |-> 1 ])
    /\ \E r \in AtividadeRewards :
          atividades = (1 :> [ codigo |-> "Q1", xp_on_completion |-> r.xp,
                               points_on_completion |-> r.pts ])
    /\ alunos = << >>
    /\ matriculas = << >>
    /\ historico = << >>
    /\ last = [ op |-> "init", arg |-> << >>,
                pre |-> [ alunos |-> << >>, matriculas |-> << >>, hlen |-> 0 ] ]
    /\ nops = 0
    /\ sessions = << >>

\* one more request served
Served(op, arg) ==
    /\ nops < MaxOps
    /\ nops' = nops + 1
    /\ last' = Record(op, arg)
    /\ UNCHANGED sessions

\* a request served with a list of rows as its response
ServedWith(op, arg, returned) ==
    /\ nops < MaxOps
    /\ nops' = nops + 1
    /\ last' = [Record(op, arg) EXCEPT !.returned = returned]
    /\ UNCHANGED sessions

\* raise HTTPException(status_code) before anything is added to the session
Rejected(op, arg, status_code) ==
    /\ nops < MaxOps
    /\ nops' = nops + 1
    /\ last' = [Record(op, arg) EXCEPT !.status = status_code]
    /\ UNCHANGED <<turmas, guildas, alunos, atividades, matriculas, historico,
                   sessions>>

(***************************************************************************)
(* Students.                                                               *)
(***************************************************************************)
\* The row create_aluno inserts: level, total_points, academic_score and
\* badges keep the defaults of the request schema; then the badge check.
NewAluno(guilda_id, xp) ==
    CheckAndAwardLevelBadges(
        [ guilda_id |-> guilda_id, xp |-> xp, level |-> 1,
          total_points |-> 0, academic_score |-> 0, badges |-> << >> ])

\* if aluno.guilda_id: None and 0 are both falsy
Truthy(id) == id # NullId /\ id # 0

\* ModelAluno(**aluno_data): aluno_data is the request schema without id, so it
\* carries the response-only keys guilda_nome and turma_nome (schemas.py:79-80),
\* which are not attributes of the mapped class (models.py:41-57).  A
\* declarative constructor that rejects unknown keys raises TypeError here, before
\* anything is added to the session, and the request ends in 500; one that
\* accepts them inserts the row.  Both outcomes are steps of the model.
create_aluno(guilda_id, xp) ==
    IF Truthy(guilda_id) /\ guilda_id \notin DOMAIN guildas
    THEN Rejected("create_aluno",
                  [ aluno_id |-> NullId, guilda_id |-> guilda_id, xp |-> xp ], 404)
    ELSE \/ Rejected("create_aluno",
                     [ aluno_id |-> NullId, guilda_id |-> guilda_id, xp |-> xp ],
                     500)
         \/ /\ Cardinality(DOMAIN alunos) < MaxAlunos
            /\ alunos' = (NextId(alunos) :> NewAluno(guilda_id, xp)) @@ alunos
            /\ Served("create_aluno",
                      [ aluno_id |-> NextId(alunos), guilda_id |-> guilda_id,
                        xp |-> xp ])
            /\ UNCHANGED <<turmas, guildas, atividades, matriculas, historico>>

\* a variant without the clamp at 0
Penalized_NoClamp(aluno, xp_deduction) ==
    [aluno EXCEPT !.xp = aluno.xp - xp_deduction,
                  !.level = Level(aluno.xp - xp_deduction)]

\* xp -= xp_deduction; clamp at 0; level from xp
Penalized(aluno, xp_deduction) ==
    LET xp == IF aluno.xp - xp_deduction < 0 THEN 0 ELSE aluno.xp - xp_deduction
    IN  [aluno EXCEPT !.xp = xp, !.level = Level(xp)]

\* a variant that lets a deduction of 0 through
InvalidDeduction_ZeroAllowed(xp_deduction) == xp_deduction < 0

\* if xp_deduction <= 0: raise HTTPException(400)
InvalidDeduction(xp_deduction) == xp_deduction <= 0

penalize_aluno_xp(aluno_id, xp_deduction, motivo) ==
    LET arg == [ aluno_id |-> aluno_id, xp_deduction |-> xp_deduction,
                 motivo |-> motivo ]
    IN  IF InvalidDeduction(xp_deduction)
        THEN Rejected("penalize_aluno_xp", arg, 400)
        ELSE IF aluno_id \notin DOMAIN alunos
        THEN Rejected("penalize_aluno_xp", arg, 404)
        ELSE /\ alunos' = [alunos EXCEPT ![aluno_id] =
                             CheckAndAwardLevelBadges(Penalized(@, xp_deduction))]
             /\ historico' = Append(historico,
                   HistoricoXPPonto(aluno_id, "penalizacao_xp_manual",
                       -xp_deduction, 0,
                       MotivoOr(motivo, "Penalidade de XP manual para o aluno"),
                       "aluno", aluno_id))
             /\ Served("penalize_aluno_xp", arg)
             /\ UNCHANGED <<turmas, guildas, atividades, matriculas>>

\* penalize_guild_xp looks the guild up with nome.ilike(guild_name).first()
Lower(nome) ==
    CASE nome = "Fenix" -> "fenix"
      [] nome = "FENIX" -> "fenix"
      [] OTHER -> nome

GuildaByName(guild_name) ==
    LET hits == { g \in DOMAIN guildas : Lower(guildas[g].nome) = Lower(guild_name) }
    IN  IF hits = {} THEN NullId ELSE MinOf(hits)

\* a variant that takes every student
AlunosNaGuilda_All(guilda_id) == DOMAIN alunos

\* filter(ModelAluno.guilda_id == db_guilda.id).all(), also guilda.alunos
AlunosNaGuilda(guilda_id) ==
    { a \in DOMAIN alunos : alunos[a].guilda_id = guilda_id }

\* a variant that records the change the clamp leaves
RECURSIVE GuildPenaltyEntries_ActualDelta(_, _, _, _)
GuildPenaltyEntries_ActualDelta(ids, guilda_id, xp_deduction, motivo) ==
    IF ids = << >> THEN << >>
    ELSE <<HistoricoXPPonto(Head(ids), "penalizacao_xp_guilda",
                            Penalized(alunos[Head(ids)], xp_deduction).xp
                                - alunos[Head(ids)].xp,
                            0, motivo, "guilda", guilda_id)>>
         \o GuildPenaltyEntries_ActualDelta(Tail(ids), guilda_id, xp_deduction,
                                            motivo)

\* one entry per student of the guild, each with valor_xp_alterado=-xp_deduction
RECURSIVE GuildPenaltyEntries(_, _, _, _)
GuildPenaltyEntries(ids, guilda_id, xp_deduction, motivo) ==
    IF ids = << >> THEN << >>
    ELSE <<HistoricoXPPonto(Head(ids), "penalizacao_xp_guilda", -xp_deduction, 0,
                            motivo, "guilda", guilda_id)>>
         \o GuildPenaltyEntries(Tail(ids), guilda_id, xp_deduction, motivo)

penalize_guild_xp(guild_name, xp_deduction, motivo) ==
    LET guilda_id == GuildaByName(guild_name)
        na_guilda == AlunosNaGuilda(guilda_id)
        arg == [ guild_name |-> guild_name, guilda_id |-> guilda_id,
                 xp_deduction |-> xp_deduction, motivo |-> motivo ]
    IN  IF InvalidDeduction(xp_deduction)
        THEN Rejected("penalize_guild_xp", arg, 400)
        ELSE IF guilda_id = NullId \/ na_guilda = {}
        THEN Rejected("penalize_guild_xp", arg, 404)
        ELSE /\ alunos' = [ a \in DOMAIN alunos |->
                              IF a \in na_guilda
                              THEN CheckAndAwardLevelBadges(
                                       Penalized(alunos[a], xp_deduction))
                              ELSE alunos[a] ]
             /\ historico' = historico \o
                   GuildPenaltyEntries(Ascending(na_guilda), guilda_id, xp_deduction,
                       MotivoOr(motivo, "Penalidade de XP para a guilda"))
             /\ Served("penalize_guild_xp", arg)
             /\ UNCHANGED <<turmas, guildas, atividades, matriculas>>

(***************************************************************************)
(* update_aluno.  A request names the fields it sets (exclude_unset).      *)
(***************************************************************************)
BlankUpdate ==
    [ set |-> {}, guilda_id |-> NullId, xp |-> 0, level |-> 1, total_points |-> 0,
      academic_score |-> 0, badges |-> << >>, motivo |-> NoMotivo ]

\* a variant whose loop skips the key "badges"
Updated_BadgesSkipped(db_aluno, req) ==
    [ guilda_id      |-> IF "guilda_id" \in req.set THEN req.guilda_id
                                                    ELSE db_aluno.guilda_id,
      xp             |-> IF "xp" \in req.set THEN req.xp ELSE db_aluno.xp,
      level          |-> IF "level" \in req.set THEN req.level ELSE db_aluno.level,
      total_points   |-> IF "total_points" \in req.set THEN req.total_points
                                                       ELSE db_aluno.total_points,
      academic_score |-> IF "academic_score" \in req.set THEN req.academic_score
                                                         ELSE db_aluno.academic_score,
      badges         |-> db_aluno.badges ]

\* the loop of setattr over the supplied fields
Updated(db_aluno, req) ==
    [ guilda_id      |-> IF "guilda_id" \in req.set THEN req.guilda_id
                                                    ELSE db_aluno.guilda_id,
      xp             |-> IF "xp" \in req.set THEN req.xp ELSE db_aluno.xp,
      level          |-> IF "level" \in req.set THEN req.level ELSE db_aluno.level,
      total_points   |-> IF "total_points" \in req.set THEN req.total_points
                                                       ELSE db_aluno.total_points,
      academic_score |-> IF "academic_score" \in req.set THEN req.academic_score
                                                         ELSE db_aluno.academic_score,
      badges         |-> IF "badges" \in req.set THEN req.badges ELSE db_aluno.badges ]

\* a variant that logs every supplied field, changed or not
UpdateEntries_NoDiff(aluno_id, old, new, req) ==
    LET motivo_alteracao ==
            MotivoOr(req.motivo, "Alteracao manual via PUT /alunos/{aluno_id}")
    IN  (IF "xp" \in req.set
         THEN <<HistoricoXPPonto(aluno_id, "ajuste_manual_xp", new.xp - old.xp, 0,
                                 motivo_alteracao, "aluno", aluno_id)>>
         ELSE << >>)
        \o
        (IF "total_points" \in req.set
         THEN <<HistoricoXPPonto(aluno_id, "ajuste_manual_pontos_totais", 0,
                                 new.total_points - old.total_points,
                                 motivo_alteracao, "aluno", aluno_id)>>
         ELSE << >>)
        \o
        (IF "academic_score" \in req.set
         THEN <<HistoricoXPPonto(aluno_id, "ajuste_manual_academic_score", 0,
                                 new.academic_score - old.academic_score,
                                 motivo_alteracao, "aluno", aluno_id)>>
         ELSE << >>)

\* historico_registros of update_aluno, in the order the handler collects them
UpdateEntries(aluno_id, old, new, req) ==
    LET motivo_alteracao ==
            MotivoOr(req.motivo, "Alteracao manual via PUT /alunos/{aluno_id}")
    IN  (IF "xp" \in req.set /\ new.xp - old.xp # 0
         THEN <<HistoricoXPPonto(aluno_id, "ajuste_manual_xp", new.xp - old.xp, 0,
                                 motivo_alteracao, "aluno", aluno_id)>>
         ELSE << >>)
        \o
        (IF "total_points" \in req.set /\ new.total_points # old.total_points
         THEN <<HistoricoXPPonto(aluno_id, "ajuste_manual_pontos_totais", 0,
                                 new.total_points - old.total_points,
                                 motivo_alteracao, "aluno", aluno_id)>>
         ELSE << >>)
        \o
        (IF "academic_score" \in req.set /\ new.academic_score # old.academic_score
         THEN <<HistoricoXPPonto(aluno_id, "ajuste_manual_academic_score", 0,
                                 new.academic_score - old.academic_score,
                                 motivo_alteracao, "aluno", aluno_id)>>
         ELSE << >>)

update_aluno(aluno_id, req) ==
    LET arg == [ aluno_id |-> aluno_id, req |-> req ]
    IN  IF \/ aluno_id \notin DOMAIN alunos
           \/ "guilda_id" \in req.set /\ req.guilda_id \notin DOMAIN guildas
        THEN Rejected("update_aluno", arg, 404)
        ELSE /\ LET old == alunos[aluno_id]
                    new == Updated(old, req)
                IN  /\ alunos' = [alunos EXCEPT ![aluno_id] =
                                    IF "xp" \in req.set
                                    THEN CheckAndAwardLevelBadges(new)
                                    ELSE new]
                    /\ historico' = historico \o
                                        UpdateEntries(aluno_id, old, new, req)
             /\ Served("update_aluno", arg)
             /\ UNCHANGED <<turmas, guildas, atividades, matriculas>>

(***************************************************************************)
(* add_quest_academic_points and award_badge_to_aluno.                     *)
(***************************************************************************)
AtividadeByCodigo(quest_code) ==
    LET hits == { q \in DOMAIN atividades : atividades[q].codigo = quest_code }
    IN  IF hits = {} THEN NullId ELSE MinOf(hits)

add_quest_academic_points(aluno_id, quest_code, motivo) ==
    LET atividade_id == AtividadeByCodigo(quest_code)
        arg == [ aluno_id |-> aluno_id, quest_code |-> quest_code,
                 atividade_id |-> atividade_id, motivo |-> motivo ]
    IN  IF aluno_id \notin DOMAIN alunos \/ atividade_id = NullId
        THEN Rejected("add_quest_academic_points", arg, 404)
        ELSE /\ alunos' = [alunos EXCEPT ![aluno_id].academic_score =
                             @ + atividades[atividade_id].points_on_completion]
             /\ historico' = Append(historico,
                   HistoricoXPPonto(aluno_id,
                       "ganho_pontos_academicos_manual_atividade",
                       0, atividades[atividade_id].points_on_completion,
                       MotivoOr(motivo, "Pontos Academicos por Atividade"),
                       "atividade", atividade_id))
             /\ Served("add_quest_academic_points", arg)
             /\ UNCHANGED <<turmas, guildas, atividades, matriculas>>

\* a variant that appends the badge whether or not it is held
AwardBadgeIfNew_Always(db_aluno, badge_name) ==
    [db_aluno EXCEPT !.badges = Append(@, badge_name)]

\* _award_badge_if_new: the row after the call
AwardBadgeIfNew(db_aluno, badge_name) ==
    IF badge_name \notin Range(db_aluno.badges)
    THEN [db_aluno EXCEPT !.badges = Append(@, badge_name)]
    ELSE db_aluno

award_badge_to_aluno(aluno_id, badge_name, motivo) ==
    LET arg == [ aluno_id |-> aluno_id, badge_name |-> badge_name,
                 motivo |-> motivo ]
    IN  IF aluno_id \notin DOMAIN alunos
        THEN Rejected("award_badge_to_aluno", arg, 404)
        ELSE /\ alunos' = [alunos EXCEPT ![aluno_id] =
                             AwardBadgeIfNew(@, badge_name)]
             /\ historico' =
                   IF badge_name \notin Range(alunos[aluno_id].badges)
                   THEN Append(historico,
                           HistoricoXPPonto(aluno_id, "concessao_badge_manual", 0, 0,
                               MotivoOr(motivo, "Concessao manual do distintivo"),
                               "badge", NullId))
                   ELSE historico
             /\ Served("award_badge_to_aluno", arg)
             /\ UNCHANGED <<turmas, guildas, atividades, matriculas>>

(***************************************************************************)
(* Enrollments.                                                            *)
(***************************************************************************)
create_matricula(aluno_id, atividade_id) ==
    IF aluno_id \notin DOMAIN alunos \/ atividade_id \notin DOMAIN atividades
    THEN Rejected("create_matricula",
                  [ matricula_id |-> NullId, aluno_id |-> aluno_id,
                    atividade_id |-> atividade_id ], 404)
    ELSE /\ matriculas' = (NextId(matriculas) :>
                             [ aluno_id |-> aluno_id, atividade_id |-> atividade_id,
                               score_in_quest |-> 0, status |-> "iniciado" ])
                          @@ matriculas
         /\ Served("create_matricula",
                   [ matricula_id |-> NextId(matriculas), aluno_id |-> aluno_id,
                     atividade_id |-> atividade_id ])
         /\ UNCHANGED <<turmas, guildas, alunos, atividades, historico>>

\* a variant that derives the level before adding the xp
Rewarded_StaleLevel(aluno, atividade, score) ==
    [aluno EXCEPT !.xp = @ + atividade.xp_on_completion,
                  !.total_points = @ + score,
                  !.academic_score = @ + atividade.points_on_completion,
                  !.level = Level(aluno.xp)]

\* aluno.xp += xp_ganho; total_points += score; academic_score += points;
\* level from xp
Rewarded(aluno, atividade, score) ==
    [aluno EXCEPT !.xp = @ + atividade.xp_on_completion,
                  !.total_points = @ + score,
                  !.academic_score = @ + atividade.points_on_completion,
                  !.level = Level(aluno.xp + atividade.xp_on_completion)]

\* the ledger entries of one completion
CompletionEntries(aluno_id, atividade_id, matricula_id, score, tipo_xp, tipo_pts) ==
    <<HistoricoXPPonto(aluno_id, tipo_xp, atividades[atividade_id].xp_on_completion,
                       score, "Conclusao da Atividade", "matricula", matricula_id)>>
    \o
    (IF atividades[atividade_id].points_on_completion > 0
     THEN <<HistoricoXPPonto(aluno_id, tipo_pts, 0,
                             atividades[atividade_id].points_on_completion,
                             "Pontos Academicos pela Atividade",
                             "atividade", atividade_id)>>
     ELSE << >>)

atividade_completa(matricula_id, score) ==
  IF matricula_id \notin DOMAIN matriculas
  THEN Rejected("atividade_completa",
                [ matricula_id |-> matricula_id, score |-> score ], 404)
  ELSE
    /\ LET aluno_id == matriculas[matricula_id].aluno_id
           atividade_id == matriculas[matricula_id].atividade_id
           both == aluno_id \in DOMAIN alunos /\ atividade_id \in DOMAIN atividades
       IN  /\ matriculas' = [matriculas EXCEPT
                               ![matricula_id].status = "concluido",
                               ![matricula_id].score_in_quest = score]
           /\ alunos' =
                 IF both
                 THEN [alunos EXCEPT ![aluno_id] =
                         CheckAndAwardLevelBadges(
                             Rewarded(@, atividades[atividade_id], score))]
                 ELSE IF aluno_id \in DOMAIN alunos
                      THEN [alunos EXCEPT ![aluno_id] = CheckAndAwardLevelBadges(@)]
                      ELSE alunos
           /\ historico' =
                 IF both
                 THEN historico \o
                      CompletionEntries(aluno_id, atividade_id, matricula_id, score,
                          "ganho_xp_atividade", "ganho_pontos_academicos_atividade")
                 ELSE historico
    /\ Served("atividade_completa",
              [ matricula_id |-> matricula_id, score |-> score ])
    /\ UNCHANGED <<turmas, guildas, atividades>>

\* next(m for m in aluno.matriculas if m.atividade_id == atividade_id), or None
MatriculaDoAluno(aluno_id, atividade_id) ==
    LET hits == { m \in DOMAIN matriculas :
                    /\ matriculas[m].aluno_id = aluno_id
                    /\ matriculas[m].atividade_id = atividade_id }
    IN  IF hits = {} THEN NullId ELSE MinOf(hits)

\* the students whose enrollment enters updated_matriculas_list
Listados(guilda_id, atividade_id) ==
    { a \in AlunosNaGuilda(guilda_id) : MatriculaDoAluno(a, atividade_id) # NullId }

\* of these, the ones whose enrollment is not yet "concluido"
AConcluir(guilda_id, atividade_id) ==
    { a \in Listados(guilda_id, atividade_id) :
        matriculas[MatriculaDoAluno(a, atividade_id)].status # "concluido" }

\* updated_matriculas_list: the enrollment of every student of the guild that
\* has one for the activity, the already completed ones included
updated_matriculas_list(guilda_id, atividade_id) ==
    { MatriculaDoAluno(a, atividade_id) : a \in Listados(guilda_id, atividade_id) }

RECURSIVE GuildCompletionEntries(_, _, _)
GuildCompletionEntries(ids, atividade_id, score) ==
    IF ids = << >> THEN << >>
    ELSE CompletionEntries(Head(ids), atividade_id,
             MatriculaDoAluno(Head(ids), atividade_id), score,
             "ganho_xp_atividade_em_massa",
             "ganho_pontos_academicos_atividade_em_massa")
         \o GuildCompletionEntries(Tail(ids), atividade_id, score)

complete_atividade_for_guild(atividade_id, guilda_id, score) ==
    LET listados == Listados(guilda_id, atividade_id)
        a_concluir == AConcluir(guilda_id, atividade_id)
        arg == [ atividade_id |-> atividade_id, guilda_id |-> guilda_id,
                 score |-> score ]
    IN  IF \/ atividade_id \notin DOMAIN atividades
           \/ guilda_id \notin DOMAIN guildas
           \/ listados = {}
        THEN Rejected("complete_atividade_for_guild", arg, 404)
        ELSE /\ matriculas' =
                   [ m \in DOMAIN matriculas |->
                       IF \E a \in a_concluir :
                             m = MatriculaDoAluno(a, atividade_id)
                       THEN [matriculas[m] EXCEPT !.status = "concluido",
                                                  !.score_in_quest = score]
                       ELSE matriculas[m] ]
             /\ alunos' =
                   [ a \in DOMAIN alunos |->
                       IF a \in a_concluir
                       THEN CheckAndAwardLevelBadges(
                                Rewarded(alunos[a], atividades[atividade_id], score))
                       ELSE IF a \in listados
                            THEN CheckAndAwardLevelBadges(alunos[a])
                            ELSE alunos[a] ]
             /\ historico' = historico \o
                   GuildCompletionEntries(Ascending(a_concluir), atividade_id, score)
             /\ ServedWith("complete_atividade_for_guild", arg,
                           updated_matriculas_list(guilda_id, atividade_id))
             /\ UNCHANGED <<turmas, guildas, atividades>>

(***************************************************************************)
(* Deletions.  db.delete(parent) with the children not loaded: the          *)
(* relationships are passive_deletes=True, so the session emits the DELETE  *)
(* of the parent row only and leaves the children to the database; the      *)
(* engine is SQLite and no connection turns PRAGMA foreign_keys on, so the  *)
(* ON DELETE clauses of the foreign keys are not applied.                   *)
(***************************************************************************)
\* a variant that empties the child table
PassiveDeletes_Truncate(children, parent_ids) == << >>

\* the rows of a child table after the deletion of the parents parent_ids
PassiveDeletes(children, parent_ids) == children

Without(table, id) == [ k \in DOMAIN table \ {id} |-> table[k] ]

delete_aluno(aluno_id) ==
    IF aluno_id \notin DOMAIN alunos
    THEN Rejected("delete_aluno", [ aluno_id |-> aluno_id ], 404)
    ELSE /\ alunos' = Without(alunos, aluno_id)
         /\ matriculas' = PassiveDeletes(matriculas, {aluno_id})
         /\ historico' = PassiveDeletes(historico, {aluno_id})
         /\ Served("delete_aluno", [ aluno_id |-> aluno_id ])
         /\ UNCHANGED <<turmas, guildas, atividades>>

delete_guilda(guilda_id) ==
    IF guilda_id \notin DOMAIN guildas
    THEN Rejected("delete_guilda", [ guilda_id |-> guilda_id ], 404)
    ELSE /\ guildas' = Without(guildas, guilda_id)
         /\ alunos' = PassiveDeletes(alunos, {guilda_id})
         /\ Served("delete_guilda", [ guilda_id |-> guilda_id ])
         /\ UNCHANGED <<turmas, atividades, matriculas, historico>>

delete_turma(turma_id) ==
    IF turma_id \notin DOMAIN turmas
    THEN Rejected("delete_turma", [ turma_id |-> turma_id ], 404)
    ELSE /\ turmas' = Without(turmas, turma_id)
         /\ guildas' = PassiveDeletes(guildas, {turma_id})
         /\ Served("delete_turma", [ turma_id |-> turma_id ])
         /\ UNCHANGED <<alunos, atividades, matriculas, historico>>

(***************************************************************************)
(* The requests of the model.                                              *)
(***************************************************************************)
CreateRequests ==
    { [ guilda_id |-> 1, xp |-> 0 ], [ guilda_id |-> 1, xp |-> 250 ],
      [ guilda_id |-> NullId, xp |-> 0 ] }

PenaltyRequests ==
    { [ xp_deduction |-> 100, motivo |-> NoMotivo ],
      [ xp_deduction |-> 400, motivo |-> "atraso" ] }

GuildPenaltyRequests ==
    { [ xp_deduction |-> 400, motivo |-> NoMotivo ] }

UpdateRequests ==
    { [BlankUpdate EXCEPT !.set = {"xp"}, !.xp = 250],
      [BlankUpdate EXCEPT !.set = {"xp", "academic_score", "motivo"},
                          !.xp = -50, !.academic_score = -5, !.motivo = ""],
      [BlankUpdate EXCEPT !.set = {"total_points", "motivo"},
                          !.total_points = 50, !.motivo = "ajuste"],
      [BlankUpdate EXCEPT !.set = {"badges"}, !.badges = <<"Lider">>],
      [BlankUpdate EXCEPT !.set = {"xp", "total_points", "badges", "motivo"},
                          !.xp = 120, !.total_points = 50, !.badges = <<"Lider">>,
                          !.motivo = "ajuste"] }

Next ==
    \/ \E r \in CreateRequests : create_aluno(r.guilda_id, r.xp)
    \/ \E a \in DOMAIN alunos, r \in UpdateRequests : update_aluno(a, r)
    \/ \E a \in DOMAIN alunos, r \in PenaltyRequests :
          penalize_aluno_xp(a, r.xp_deduction, r.motivo)
    \/ \E r \in GuildPenaltyRequests :
          penalize_guild_xp("fenix", r.xp_deduction, r.motivo)
    \/ \E a \in DOMAIN alunos : add_quest_academic_points(a, "Q1", NoMotivo)
    \/ \E a \in DOMAIN alunos, b \in ManualBadges :
          award_badge_to_aluno(a, b, NoMotivo)
    \/ \E a \in DOMAIN alunos, q \in DOMAIN atividades :
          Cardinality(DOMAIN matriculas) < MaxMatriculas /\ create_matricula(a, q)
    \/ \E m \in DOMAIN matriculas, score \in Scores : atividade_completa(m, score)
    \/ \E q \in DOMAIN atividades, g \in DOMAIN guildas :
          complete_atividade_for_guild(q, g, 10)

Spec == Init /\ [][Next]_vars

(***************************************************************************)
(* The commits of a handler as separate steps.                             *)
(*                                                                         *)
(* FastAPI runs the handlers (plain def) on a thread pool, each with its   *)
(* own Session (get_db).  A handler loads its rows with a query, changes   *)
(* the loaded objects in Python and commits; the flush writes, for every   *)
(* changed object, the columns whose value differs from the loaded one.    *)
(* The driver opens no transaction for a SELECT, so nothing is locked      *)
(* between the load and the commit.  Each db.commit() is one step; the     *)
(* refresh, badge check and commit that end a handler are taken as one     *)
(* step per student.                                                       *)
(***************************************************************************)
MaxSessions == 2

Sessions == 1 .. MaxSessions

Idle == [ op |-> "none", arg |-> << >>, pc |-> "idle", rows |-> << >>,
          mats |-> {}, todo |-> << >> ]

StepRequests ==
    { [ op |-> "atividade_completa", arg |-> [ matricula_id |-> 1, score |-> 10 ] ],
      [ op |-> "complete_atividade_for_guild",
        arg |-> [ atividade_id |-> 1, guilda_id |-> 1, score |-> 10 ] ],
      [ op |-> "penalize_aluno_xp",
        arg |-> [ aluno_id |-> 1, xp_deduction |-> 100, motivo |-> NoMotivo ] ],
      [ op |-> "penalize_guild_xp",
        arg |-> [ guilda_id |-> 1, xp_deduction |-> 100, motivo |-> NoMotivo ] ],
      [ op |-> "add_quest_academic_points",
        arg |-> [ aluno_id |-> 1, atividade_id |-> 1, motivo |-> NoMotivo ] ],
      [ op |-> "update_aluno",
        arg |-> [ aluno_id |-> 1,
                  req |-> [BlankUpdate EXCEPT !.set = {"xp"}, !.xp = 120] ] ] }

\* two students of guild 1 (create_aluno with xp 250 and with xp 0), each
\* enrolled in activity 1 (create_matricula), worth 150 xp and 5 points
StepsAlunos == (1 :> NewAluno(1, 250)) @@ (2 :> NewAluno(1, 0))

InitSteps ==
    /\ turmas = (1 :> [ nome |-> "5A" ])
    /\ guildas = (1 :> [ nome |-> "Fenix", turma_id |-> 1 ])
    /\ atividades = (1 :> [ codigo |-> "Q1", xp_on_completion |-> 150,
                            points_on_completion |-> 5 ])
    /\ alunos = StepsAlunos
    /\ matriculas =
          (1 :> [ aluno_id |-> 1, atividade_id |-> 1, score_in_quest |-> 0,
                  status |-> "iniciado" ])
          @@ (2 :> [ aluno_id |-> 2, atividade_id |-> 1, score_in_quest |-> 0,
                     status |-> "iniciado" ])
    /\ historico = << >>
    /\ last = [ op |-> "init", arg |-> << >>,
                pre |-> [ alunos |-> << >>, matriculas |-> << >>, hlen |-> 0 ] ]
    /\ nops = 0
    /\ sessions = [ p \in Sessions |-> Idle ]

\* the enrollments the handler sets to "concluido", as its query sees them
LoadedMatriculas(op, arg) ==
    CASE op = "atividade_completa" -> {arg.matricula_id}
      [] op = "complete_atividade_for_guild" ->
            { MatriculaDoAluno(a, arg.atividade_id) :
                a \in AConcluir(arg.guilda_id, arg.atividade_id) }
      [] OTHER -> {}

\* the students whose loaded objects the handler changes before its first commit
LoadedAlunos(op, arg) ==
    CASE op = "atividade_completa" ->
            {matriculas[arg.matricula_id].aluno_id} \cap DOMAIN alunos
      [] op = "complete_atividade_for_guild" ->
            AConcluir(arg.guilda_id, arg.atividade_id)
      [] op = "penalize_guild_xp" -> AlunosNaGuilda(arg.guilda_id)
      [] OTHER -> {arg.aluno_id}

\* the students the handler runs _check_and_award_level_badges on, in order
BadgeChecks(op, arg) ==
    CASE op = "atividade_completa" ->
            Ascending({matriculas[arg.matricula_id].aluno_id} \cap DOMAIN alunos)
      [] op = "complete_atividade_for_guild" ->
            Ascending(Listados(arg.guilda_id, arg.atividade_id))
      [] op = "penalize_guild_xp" -> Ascending(AlunosNaGuilda(arg.guilda_id))
      [] op = "penalize_aluno_xp" -> <<arg.aluno_id>>
      [] op = "update_aluno" ->
            IF "xp" \in arg.req.set THEN <<arg.aluno_id>> ELSE << >>
      [] OTHER -> << >>

\* the activity whose rewards a completion gives
LoadedAtividade(op, arg) ==
    IF op = "atividade_completa" THEN matriculas[arg.matricula_id].atividade_id
                                 ELSE arg.atividade_id

\* the loaded object of a student after the handler's assignments
Assigned(op, arg, row) ==
    CASE op \in {"atividade_completa", "complete_atividade_for_guild"} ->
            Rewarded(row, atividades[LoadedAtividade(op, arg)], arg.score)
      [] op \in {"penalize_aluno_xp", "penalize_guild_xp"} ->
            Penalized(row, arg.xp_deduction)
      [] op = "add_quest_academic_points" ->
            [row EXCEPT !.academic_score =
                @ + atividades[arg.atividade_id].points_on_completion]
      [] op = "update_aluno" -> Updated(row, arg.req)

\* UPDATE alunos SET <the columns whose value differs from the loaded one>
Flushed(stored, loaded, assigned) ==
    [ f \in DOMAIN stored |->
        IF assigned[f] # loaded[f] THEN assigned[f] ELSE stored[f] ]

\* the ledger rows the handler adds, built from its loaded objects
SessionEntries(op, arg, rows, ids) ==
    CASE op = "atividade_completa" ->
            IF ids = << >> THEN << >>
            ELSE CompletionEntries(Head(ids), LoadedAtividade(op, arg),
                     arg.matricula_id, arg.score,
                     "ganho_xp_atividade", "ganho_pontos_academicos_atividade")
      [] op = "complete_atividade_for_guild" ->
            GuildCompletionEntries(ids, arg.atividade_id, arg.score)
      [] op = "penalize_aluno_xp" ->
            <<HistoricoXPPonto(arg.aluno_id, "penalizacao_xp_manual",
                  -arg.xp_deduction, 0,
                  MotivoOr(arg.motivo, "Penalidade de XP manual para o aluno"),
                  "aluno", arg.aluno_id)>>
      [] op = "penalize_guild_xp" ->
            GuildPenaltyEntries(ids, arg.guilda_id, arg.xp_deduction,
                MotivoOr(arg.motivo, "Penalidade de XP para a guilda"))
      [] op = "add_quest_academic_points" ->
            <<HistoricoXPPonto(arg.aluno_id,
                  "ganho_pontos_academicos_manual_atividade", 0,
                  atividades[arg.atividade_id].points_on_completion,
                  MotivoOr(arg.motivo, "Pontos Academicos por Atividade"),
                  "atividade", arg.atividade_id)>>
      [] op = "update_aluno" ->
            UpdateEntries(arg.aluno_id, rows[arg.aluno_id],
                Updated(rows[arg.aluno_id], arg.req), arg.req)

\* atividade_completa and penalize_guild_xp commit their ledger rows in a
\* commit of their own, after the commit of the students
LogsInOwnCommit(op) == op \in {"atividade_completa", "penalize_guild_xp"}

\* the lookups of the handler find their rows (otherwise it raises 404
\* before it changes anything)
Found(op, arg) ==
    CASE op = "atividade_completa" -> arg.matricula_id \in DOMAIN matriculas
      [] op = "complete_atividade_for_guild" ->
            /\ arg.atividade_id \in DOMAIN atividades
            /\ arg.guilda_id \in DOMAIN guildas
            /\ Listados(arg.guilda_id, arg.atividade_id) # {}
      [] op = "penalize_guild_xp" ->
            /\ arg.guilda_id \in DOMAIN guildas
            /\ AlunosNaGuilda(arg.guilda_id) # {}
      [] op = "add_quest_academic_points" ->
            /\ arg.aluno_id \in DOMAIN alunos
            /\ arg.atividade_id \in DOMAIN atividades
      [] OTHER -> arg.aluno_id \in DOMAIN alunos

\* where the handler stands once its ledger rows are committed
AfterLog(todo) == IF todo = << >> THEN "done" ELSE "badges"

\* the queries at the head of the handler
Load(p, r) ==
    /\ sessions[p].pc = "idle"
    /\ Found(r.op, r.arg)
    /\ sessions' = [sessions EXCEPT ![p] =
          [ op |-> r.op, arg |-> r.arg, pc |-> "loaded",
            rows |-> [ a \in LoadedAlunos(r.op, r.arg) |-> alunos[a] ],
            mats |-> LoadedMatriculas(r.op, r.arg),
            todo |-> BadgeChecks(r.op, r.arg) ]]
    /\ UNCHANGED <<turmas, guildas, alunos, atividades, matriculas, historico,
                   last, nops>>

\* the first db.commit(): the changed students and enrollments, and the
\* ledger rows unless the handler commits them on their own
Commit(p) ==
    LET ses == sessions[p]
    IN  /\ ses.pc = "loaded"
        /\ alunos' =
              [ a \in DOMAIN alunos |->
                  IF a \in DOMAIN ses.rows
                  THEN Flushed(alunos[a], ses.rows[a],
                               Assigned(ses.op, ses.arg, ses.rows[a]))
                  ELSE alunos[a] ]
        /\ matriculas' =
              [ m \in DOMAIN matriculas |->
                  IF m \in ses.mats
                  THEN [matriculas[m] EXCEPT !.status = "concluido",
                                             !.score_in_quest = ses.arg.score]
                  ELSE matriculas[m] ]
        /\ historico' =
              IF LogsInOwnCommit(ses.op) THEN historico
              ELSE historico \o
                   SessionEntries(ses.op, ses.arg, ses.rows,
                                  Ascending(DOMAIN ses.rows))
        /\ sessions' = [sessions EXCEPT ![p].pc =
              IF LogsInOwnCommit(ses.op) THEN "updated" ELSE AfterLog(ses.todo)]
        /\ UNCHANGED <<turmas, guildas, atividades, last, nops>>

\* the second db.commit() of atividade_completa and penalize_guild_xp: the
\* ledger rows
LogCommit(p) ==
    LET ses == sessions[p]
    IN  /\ ses.pc = "updated"
        /\ historico' = historico \o
              SessionEntries(ses.op, ses.arg, ses.rows, Ascending(DOMAIN ses.rows))
        /\ sessions' = [sessions EXCEPT ![p].pc = AfterLog(ses.todo)]
        /\ UNCHANGED <<turmas, guildas, alunos, atividades, matriculas, last, nops>>

\* refresh, _check_and_award_level_badges and db.commit() for the next student
BadgeCommit(p) ==
    LET ses == sessions[p]
    IN  /\ ses.pc = "badges"
        /\ alunos' = [alunos EXCEPT ![Head(ses.todo)] = CheckAndAwardLevelBadges(@)]
        /\ sessions' = [sessions EXCEPT ![p].todo = Tail(ses.todo),
                                        ![p].pc = AfterLog(Tail(ses.todo))]
        /\ UNCHANGED <<turmas, guildas, atividades, matriculas, historico,
                       last, nops>>

\* the request ends between two of its commits (the worker is killed, or a
\* statement raises OperationalError: database is locked); what was
\* committed stays
Fail(p) ==
    /\ sessions[p].pc \in {"updated", "badges"}
    /\ sessions' = [sessions EXCEPT ![p].pc = "failed"]
    /\ UNCHANGED <<turmas, guildas, alunos, atividades, matriculas, historico,
                   last, nops>>

NextSteps ==
    \/ \E p \in Sessions, r \in StepRequests : Load(p, r)
    \/ \E p \in Sessions : Commit(p)
    \/ \E p \in Sessions : LogCommit(p)
    \/ \E p \in Sessions : BadgeCommit(p)
    \/ \E p \in Sessions : Fail(p)

SpecSteps == InitSteps /\ [][NextSteps]_vars

(***************************************************************************)
(* A school in use: two classes with a guild each, a student in each guild, *)
(* both enrolled in the activity, the first having completed it.  Requests  *)
(* arrive with ids that exist and ids that do not, with valid and invalid   *)
(* deductions, and rows are deleted.                                        *)
(***************************************************************************)
MaxOrgOps == 2

InitOrg ==
    /\ turmas = (1 :> [ nome |-> "5A" ]) @@ (2 :> [ nome |-> "6B" ])
    /\ guildas = (1 :> [ nome |-> "Fenix", turma_id |-> 1 ])
                 @@ (2 :> [ nome |-> "Dragao", turma_id |-> 2 ])
    /\ atividades = (1 :> [ codigo |-> "Q1", xp_on_completion |-> 150,
                            points_on_completion |-> 5 ])
    /\ alunos = (1 :> CheckAndAwardLevelBadges(
                          Rewarded(NewAluno(1, 0), atividades[1], 10)))
                @@ (2 :> NewAluno(2, 0))
    /\ matriculas = (1 :> [ aluno_id |-> 1, atividade_id |-> 1,
                            score_in_quest |-> 10, status |-> "concluido" ])
                    @@ (2 :> [ aluno_id |-> 2, atividade_id |-> 1,
                               score_in_quest |-> 0, status |-> "iniciado" ])
    /\ historico = CompletionEntries(1, 1, 1, 10, "ganho_xp_atividade",
                                     "ganho_pontos_academicos_atividade")
    /\ last = [ op |-> "init", arg |-> << >>,
                pre |-> [ alunos |-> << >>, matriculas |-> << >>, hlen |-> 0 ] ]
    /\ nops = 0
    /\ sessions = << >>

\* ids sent by the clients: rows 1 and 2 exist at the start, 3 never does
OrgIds == 1 .. 3

OrgDeductions == { 100, 0, -5 }

NextOrg ==
    \/ \E t \in OrgIds : nops < MaxOrgOps /\ delete_turma(t)
    \/ \E g \in OrgIds : nops < MaxOrgOps /\ delete_guilda(g)
    \/ \E a \in OrgIds : nops < MaxOrgOps /\ delete_aluno(a)
    \/ \E g \in {NullId, 0, 1, 3} : nops < MaxOrgOps /\ create_aluno(g, 0)
    \/ \E a \in {1, 3}, g \in {2, 3} : nops < MaxOrgOps /\
          update_aluno(a, [BlankUpdate EXCEPT !.set = {"guilda_id"},
                                              !.guilda_id = g])
    \/ \E a \in {1, 3}, d \in OrgDeductions : nops < MaxOrgOps /\
          penalize_aluno_xp(a, d, NoMotivo)
    \/ \E n \in {"fenix", "nada"}, d \in OrgDeductions : nops < MaxOrgOps /\
          penalize_guild_xp(n, d, NoMotivo)
    \/ \E a \in {1, 3}, c \in {"Q1", "Q9"} : nops < MaxOrgOps /\
          add_quest_academic_points(a, c, NoMotivo)
    \/ \E a \in {1, 3} : nops < MaxOrgOps /\
          award_badge_to_aluno(a, "Lider", NoMotivo)
    \/ \E a \in {2, 3}, q \in {1, 3} : nops < MaxOrgOps /\ create_matricula(a, q)
    \/ \E m \in OrgIds : nops < MaxOrgOps /\ atividade_completa(m, 10)
    \/ \E q \in {1, 3}, g \in {1, 3} : nops < MaxOrgOps /\
          complete_atividade_for_guild(q, g, 10)

SpecOrg == InitOrg /\ [][NextOrg]_vars

(***************************************************************************)
(* Classes and guilds: creation, renaming, moving and deletion, with the    *)
(* students and enrollments that hang on them.                               *)
(***************************************************************************)
MaxCrudOps == 2

\* the value of a nome sent as null
NoNome == "<null>"

\* a variant that never finds the name
NameTaken_Never(table, nome) == FALSE

\* db.query(Model).filter(Model.nome == nome).first() finds a row
NameTaken(table, nome) == \E k \in DOMAIN table : table[k].nome = nome

create_turma(nome) ==
    IF NameTaken(turmas, nome)
    THEN Rejected("create_turma", [ turma_id |-> NullId, nome |-> nome ], 400)
    ELSE /\ turmas' = (NextId(turmas) :> [ nome |-> nome ]) @@ turmas
         /\ Served("create_turma", [ turma_id |-> NextId(turmas), nome |-> nome ])
         /\ UNCHANGED <<guildas, alunos, atividades, matriculas, historico>>

\* req.set holds the keys the request supplies; a nome of null passes the
\* check and meets NOT NULL at the commit
update_turma(turma_id, req) ==
    LET arg == [ turma_id |-> turma_id, req |-> req ]
    IN  IF turma_id \notin DOMAIN turmas
        THEN Rejected("update_turma", arg, 404)
        ELSE IF /\ "nome" \in req.set
                /\ req.nome # NoNome
                /\ req.nome # turmas[turma_id].nome
                /\ NameTaken(turmas, req.nome)
        THEN Rejected("update_turma", arg, 400)
        ELSE IF "nome" \in req.set /\ req.nome = NoNome
        THEN Rejected("update_turma", arg, 500)
        ELSE /\ turmas' = [turmas EXCEPT ![turma_id].nome =
                             IF "nome" \in req.set THEN req.nome ELSE @]
             /\ Served("update_turma", arg)
             /\ UNCHANGED <<guildas, alunos, atividades, matriculas, historico>>

create_guilda(nome, turma_id) ==
    LET arg(id) == [ guilda_id |-> id, nome |-> nome, turma_id |-> turma_id ]
    IN  IF turma_id \notin DOMAIN turmas
        THEN Rejected("create_guilda", arg(NullId), 404)
        ELSE IF NameTaken(guildas, nome)
        THEN Rejected("create_guilda", arg(NullId), 400)
        ELSE /\ guildas' = (NextId(guildas) :> [ nome |-> nome,
                                                 turma_id |-> turma_id ])
                           @@ guildas
             /\ Served("create_guilda", arg(NextId(guildas)))
             /\ UNCHANGED <<turmas, alunos, atividades, matriculas, historico>>

update_guilda(guilda_id, req) ==
    LET arg == [ guilda_id |-> guilda_id, req |-> req ]
    IN  IF guilda_id \notin DOMAIN guildas
        THEN Rejected("update_guilda", arg, 404)
        ELSE IF /\ "nome" \in req.set
                /\ req.nome # NoNome
                /\ req.nome # guildas[guilda_id].nome
                /\ NameTaken(guildas, req.nome)
        THEN Rejected("update_guilda", arg, 400)
        ELSE IF /\ "turma_id" \in req.set
                /\ req.turma_id # guildas[guilda_id].turma_id
                /\ req.turma_id \notin DOMAIN turmas
        THEN Rejected("update_guilda", arg, 404)
        ELSE IF "nome" \in req.set /\ req.nome = NoNome
        THEN Rejected("update_guilda", arg, 500)
        ELSE /\ guildas' = [guildas EXCEPT ![guilda_id] =
                  [ nome |-> IF "nome" \in req.set THEN req.nome ELSE @.nome,
                    turma_id |-> IF "turma_id" \in req.set THEN req.turma_id
                                                           ELSE @.turma_id ]]
             /\ Served("update_guilda", arg)
             /\ UNCHANGED <<turmas, alunos, atividades, matriculas, historico>>

TurmaNames == { "5A", "6B", "7C" }
GuildaNames == { "Fenix", "Dragao", "Grifo" }

TurmaUpdates ==
    { [ set |-> {"nome"}, nome |-> n ] : n \in {"6B", "7C", NoNome} }

GuildaUpdates ==
    { [ set |-> {"nome"}, nome |-> n, turma_id |-> NullId ] :
        n \in {"Dragao", "Grifo", NoNome} }
    \cup { [ set |-> {"turma_id"}, nome |-> NoNome, turma_id |-> t ] : t \in {2, 3} }
    \cup { [ set |-> {"nome", "turma_id"}, nome |-> "Dragao", turma_id |-> 2 ] }

NextCrud ==
    \/ \E n \in TurmaNames : nops < MaxCrudOps /\ create_turma(n)
    \/ \E t \in {1, 3}, r \in TurmaUpdates : nops < MaxCrudOps /\ update_turma(t, r)
    \/ \E n \in GuildaNames, t \in {1, 3} : nops < MaxCrudOps /\ create_guilda(n, t)
    \/ \E g \in {1, 3}, r \in GuildaUpdates :
          nops < MaxCrudOps /\ update_guilda(g, r)
    \/ \E t \in {1, 2} : nops < MaxCrudOps /\ delete_turma(t)
    \/ \E g \in {1, 2} : nops < MaxCrudOps /\ delete_guilda(g)
    \/ \E a \in {1, 2} : nops < MaxCrudOps /\ delete_aluno(a)
    \/ \E g \in {2, 3} : nops < MaxCrudOps /\ create_aluno(g, 0)
    \/ \E a \in {1}, g \in {2, 3} : nops < MaxCrudOps /\
          update_aluno(a, [BlankUpdate EXCEPT !.set = {"guilda_id"},
                                              !.guilda_id = g])

SpecCrud == InitOrg /\ [][NextCrud]_vars

(***************************************************************************)
(* Enrollment of single students, of a guild and of a class.                *)
(***************************************************************************)
MaxEnrollOps == 3

\* a variant that never finds an enrollment
HasMatricula_Never(mats, aluno_id, atividade_id) == FALSE

\* the query for existing_matricula finds a row
HasMatricula(mats, aluno_id, atividade_id) ==
    \E m \in DOMAIN mats : /\ mats[m].aluno_id = aluno_id
                           /\ mats[m].atividade_id = atividade_id

\* a variant that starts the enrollment of every student afresh
RECURSIVE BulkEnrolled_Reset(_, _, _)
BulkEnrolled_Reset(ids, atividade_id, mats) ==
    IF ids = << >> THEN mats
    ELSE BulkEnrolled_Reset(Tail(ids), atividade_id,
            IF HasMatricula(mats, Head(ids), atividade_id)
            THEN [ m \in DOMAIN mats |->
                     IF /\ mats[m].aluno_id = Head(ids)
                        /\ mats[m].atividade_id = atividade_id
                     THEN [mats[m] EXCEPT !.status = "iniciado",
                                          !.score_in_quest = 0]
                     ELSE mats[m] ]
            ELSE (NextId(mats) :> [ aluno_id |-> Head(ids),
                                    atividade_id |-> atividade_id,
                                    score_in_quest |-> 0,
                                    status |-> "iniciado" ]) @@ mats)

\* the loop over the students: a new row, flushed, for each one without an
\* enrollment in the activity
RECURSIVE BulkEnrolled(_, _, _)
BulkEnrolled(ids, atividade_id, mats) ==
    IF ids = << >> THEN mats
    ELSE BulkEnrolled(Tail(ids), atividade_id,
            IF HasMatricula(mats, Head(ids), atividade_id)
            THEN mats
            ELSE (NextId(mats) :> [ aluno_id |-> Head(ids),
                                    atividade_id |-> atividade_id,
                                    score_in_quest |-> 0,
                                    status |-> "iniciado" ]) @@ mats)

\* matriculas_to_return: the new rows and, for the students that had one,
\* the first existing row
MatriculasToReturn(ids, atividade_id, mats) ==
    { MinOf({ m \in DOMAIN mats : /\ mats[m].aluno_id = a
                                  /\ mats[m].atividade_id = atividade_id }) :
        a \in ids }

\* the orders in which a Python set of the students can be walked
Orders(S) == { o \in [1 .. Cardinality(S) -> S] : Range(o) = S }

create_bulk_matriculas_by_guild(curso_id, guilda_id) ==
    LET arg == [ curso_id |-> curso_id, guilda_id |-> guilda_id ]
        db_alunos_na_guilda == AlunosNaGuilda(guilda_id)
    IN  IF \/ curso_id \notin DOMAIN atividades
           \/ guilda_id \notin DOMAIN guildas
           \/ db_alunos_na_guilda = {}
        THEN Rejected("create_bulk_matriculas_by_guild", arg, 404)
        ELSE /\ matriculas' = BulkEnrolled(Ascending(db_alunos_na_guilda),
                                           curso_id, matriculas)
             /\ ServedWith("create_bulk_matriculas_by_guild", arg,
                           MatriculasToReturn(db_alunos_na_guilda, curso_id,
                                              matriculas'))
             /\ UNCHANGED <<turmas, guildas, alunos, atividades, historico>>

create_bulk_matriculas_by_turma(curso_id, turma_id) ==
    LET arg == [ curso_id |-> curso_id, turma_id |-> turma_id ]
        db_guildas == { g \in DOMAIN guildas : guildas[g].turma_id = turma_id }
        all_alunos_in_turma ==
            { a \in DOMAIN alunos : alunos[a].guilda_id \in db_guildas }
    IN  IF \/ curso_id \notin DOMAIN atividades
           \/ turma_id \notin DOMAIN turmas
           \/ db_guildas = {}
           \/ all_alunos_in_turma = {}
        THEN Rejected("create_bulk_matriculas_by_turma", arg, 404)
        ELSE /\ \E o \in Orders(all_alunos_in_turma) :
                   matriculas' = BulkEnrolled(o, curso_id, matriculas)
             /\ ServedWith("create_bulk_matriculas_by_turma", arg,
                           MatriculasToReturn(all_alunos_in_turma, curso_id,
                                              matriculas'))
             /\ UNCHANGED <<turmas, guildas, alunos, atividades, historico>>

\* classes 1 (guilds 1, 2 and the empty guild 3) and 2 (no guild); students 1
\* and 2 in guild 1, student 3 in guild 2; student 1 has completed activity 1
InitEnroll ==
    /\ turmas = (1 :> [ nome |-> "5A" ]) @@ (2 :> [ nome |-> "6B" ])
    /\ guildas = (1 :> [ nome |-> "Fenix", turma_id |-> 1 ])
                 @@ (2 :> [ nome |-> "Dragao", turma_id |-> 1 ])
                 @@ (3 :> [ nome |-> "Grifo", turma_id |-> 1 ])
    /\ atividades = (1 :> [ codigo |-> "Q1", xp_on_completion |-> 150,
                            points_on_completion |-> 5 ])
    /\ alunos = (1 :> CheckAndAwardLevelBadges(
                          Rewarded(NewAluno(1, 0), atividades[1], 10)))
                @@ (2 :> NewAluno(1, 0))
                @@ (3 :> NewAluno(2, 0))
    /\ matriculas = (1 :> [ aluno_id |-> 1, atividade_id |-> 1,
                            score_in_quest |-> 10, status |-> "concluido" ])
    /\ historico = CompletionEntries(1, 1, 1, 10, "ganho_xp_atividade",
                                     "ganho_pontos_academicos_atividade")
    /\ last = [ op |-> "init", arg |-> << >>, pre |-> Pre, status |-> 200,
                returned |-> {} ]
    /\ nops = 0
    /\ sessions = << >>

NextEnroll ==
    \/ \E a \in {1, 2, 4}, q \in {1, 2} :
          nops < MaxEnrollOps /\ create_matricula(a, q)
    \/ \E q \in {1, 2}, g \in {1, 3, 4} :
          nops < MaxEnrollOps /\ create_bulk_matriculas_by_guild(q, g)
    \/ \E q \in {1, 2}, t \in {1, 2, 3} :
          nops < MaxEnrollOps /\ create_bulk_matriculas_by_turma(q, t)
    \/ \E m \in {1, 2, 5} : nops < MaxEnrollOps /\ atividade_completa(m, 10)
    \/ \E g \in {1, 2} :
          nops < MaxEnrollOps /\ complete_atividade_for_guild(1, g, 10)

SpecEnroll == InitEnroll /\ [][NextEnroll]_vars

(***************************************************************************)
(* The badge check alone, on any xp and any stored list of badges.          *)
(***************************************************************************)
MaxBadgeCalls == 2

\* xp values around the thresholds, below zero and beyond the last tier
BadgeXps == { -50, 0, 99, 100, 101, 199, 200, 350, 1000, 1200 }

\* stored lists: empty, tier lists whole, partial, reordered, with a repeat,
\* with a badge awarded by hand, and with tiers the xp has not reached
StoredBadges ==
    { << >>,
      <<"Explorador Iniciante">>,
      <<"Explorador Iniciante", "Explorador Bronze">>,
      <<"Explorador Bronze", "Explorador Iniciante">>,
      <<"Explorador Bronze">>,
      <<"Explorador Iniciante", "Explorador Iniciante">>,
      <<"Lider">>,
      <<"Explorador Iniciante", "Lider">>,
      ExpectedBadges(350),
      ExpectedBadges(1000) }

\* one call of _check_and_award_level_badges on the row of student a; the
\* return value is kept in last.returned
check_and_award_level_badges(a) ==
    /\ nops < MaxBadgeCalls
    /\ nops' = nops + 1
    /\ alunos' = [alunos EXCEPT ![a] = CheckAndAwardLevelBadges(@)]
    /\ last' = [Record("_check_and_award_level_badges", [ aluno_id |-> a ])
                  EXCEPT !.returned = LevelBadgesChanged(alunos[a])]
    /\ UNCHANGED <<turmas, guildas, atividades, matriculas, historico, sessions>>

InitBadges ==
    /\ turmas = << >>
    /\ guildas = << >>
    /\ atividades = << >>
    /\ matriculas = << >>
    /\ historico = << >>
    /\ \E xp \in BadgeXps, badges \in StoredBadges :
          alunos = (1 :> [NewAluno(NullId, xp) EXCEPT !.badges = badges])
    /\ last = [ op |-> "init", arg |-> << >>, pre |-> Pre, status |-> 200,
                returned |-> {} ]
    /\ nops = 0
    /\ sessions = << >>

NextBadges == \E a \in DOMAIN alunos : check_and_award_level_badges(a)

SpecBadges == InitBadges /\ [][NextBadges]_vars

(***************************************************************************)
(* Lookups of a student by part of the name.  Here a student row carries    *)
(* its nome, as the sequence of its characters, next to the other columns.  *)
(* The requests are reads: they change last and nops only.                   *)
(***************************************************************************)
MaxLookupAlunos == 2
MaxLookupOps == 1

\* nome.ilike(...) compares without regard to case
LowerChar(c) ==
    CASE c = "A" -> "a"
      [] c = "B" -> "b"
      [] OTHER -> c

LowerName(nome) == [ i \in DOMAIN nome |-> LowerChar(nome[i]) ]

\* nome.ilike(f"%{nome_aluno}%") for a nome_aluno without % and _ : nome_aluno
\* occurs in nome, case aside
ILikeContains(nome, nome_aluno) ==
    \E i \in 0 .. (Len(nome) - Len(nome_aluno)) :
        SubSeq(LowerName(nome), i + 1, i + Len(nome_aluno)) = LowerName(nome_aluno)

AlunosByNome(nome_aluno) ==
    { a \in DOMAIN alunos : ILikeContains(alunos[a].nome, nome_aluno) }

\* the names of the students in the tables, and the names the clients ask for
LookupNames == { <<"A", "n", "a">>, <<"A", "n", "a", "b">>, <<"B", "e", "l">> }
LookupQueries == { <<"a", "n", "a">>, <<"b">>, <<"e", "l">>, <<"x">>, << >> }

\* a response: status_code and the ids of the students whose data, or whose
\* names as candidates, it carries
Responded(op, arg, status_code, returned) ==
    /\ nops < MaxOps
    /\ nops' = nops + 1
    /\ last' = [Record(op, arg) EXCEPT !.status = status_code,
                                       !.returned = returned]
    /\ UNCHANGED <<turmas, guildas, alunos, atividades, matriculas, historico,
                   sessions>>

get_historico_aluno_xp_pontos(aluno_id, nome_aluno) ==
    LET arg == [ aluno_id |-> aluno_id, nome_aluno |-> nome_aluno ]
        op == "get_historico_aluno_xp_pontos"
        matches == AlunosByNome(nome_aluno)
        has_entries(a) == \E i \in DOMAIN historico : historico[i].aluno_id = a
        answer(a) == IF has_entries(a) THEN Responded(op, arg, 200, {a})
                                       ELSE Responded(op, arg, 404, {})
    IN  IF Truthy(aluno_id)
        THEN IF aluno_id \in DOMAIN alunos THEN answer(aluno_id)
                                           ELSE Responded(op, arg, 404, {})
        ELSE IF nome_aluno # << >>
        THEN IF matches = {} THEN Responded(op, arg, 404, {})
             ELSE IF Cardinality(matches) > 1
             THEN Responded(op, arg, 400, matches)
             ELSE answer(MinOf(matches))
        ELSE Responded(op, arg, 400, {})

\* filter(nome.ilike(...)).first(): the first match in rowid order
read_matriculas_por_nome_aluno(nome_aluno) ==
    LET arg == [ aluno_id |-> NullId, nome_aluno |-> nome_aluno ]
        op == "read_matriculas_por_nome_aluno"
        matches == AlunosByNome(nome_aluno)
        db_aluno == MinOf(matches)
        atividades_matriculadas ==
            { m \in DOMAIN matriculas :
                /\ matriculas[m].aluno_id = db_aluno
                /\ matriculas[m].atividade_id \in DOMAIN atividades }
    IN  IF matches = {} THEN Responded(op, arg, 404, {})
        ELSE IF atividades_matriculadas = {} THEN Responded(op, arg, 404, {})
        ELSE Responded(op, arg, 200, {db_aluno})

\* student a of a school in use: enrolled in the activity, with one entry in
\* the ledger
LookupAluno(nome) == [ nome |-> nome ] @@ NewAluno(1, 0)

InitLookup ==
    /\ turmas = (1 :> [ nome |-> "5A" ])
    /\ guildas = (1 :> [ nome |-> "Fenix", turma_id |-> 1 ])
    /\ atividades = (1 :> [ codigo |-> "Q1", xp_on_completion |-> 150,
                            points_on_completion |-> 5 ])
    /\ \E n \in 1 .. MaxLookupAlunos :
          \E nomes \in [ 1 .. n -> LookupNames ] :
              /\ alunos = [ a \in 1 .. n |-> LookupAluno(nomes[a]) ]
              /\ matriculas = [ a \in 1 .. n |->
                                  [ aluno_id |-> a, atividade_id |-> 1,
                                    score_in_quest |-> 0, status |-> "iniciado" ] ]
              /\ historico = [ a \in 1 .. n |->
                                 HistoricoXPPonto(a, "concessao_badge_manual", 0, 0,
                                     "Concessao manual do distintivo", "badge",
                                     NullId) ]
    /\ last = [ op |-> "init", arg |-> << >>,
                pre |-> [ alunos |-> << >>, matriculas |-> << >>, hlen |-> 0 ] ]
    /\ nops = 0
    /\ sessions = << >>

NextLookup ==
    \/ \E a \in {NullId, 0, 1, 3}, q \in LookupQueries :
          nops < MaxLookupOps /\ get_historico_aluno_xp_pontos(a, q)
    \/ \E q \in LookupQueries \ { << >> } :
          nops < MaxLookupOps /\ read_matriculas_por_nome_aluno(q)

SpecLookup == InitLookup /\ [][NextLookup]_vars

(***************************************************************************)
(* Vocabulary of the properties.                                           *)
(***************************************************************************)
\* the student rows before the last request
Before == last.pre.alunos

\* the ledger entries the last request appended
NewEntries == SubSeq(historico, last.pre.hlen + 1, Len(historico))

NewEntriesOf(a) == { i \in DOMAIN NewEntries : NewEntries[i].aluno_id = a }

\* the last request created student a or left a with another xp
XpChanged(a) == a \notin DOMAIN Before \/ Before[a].xp # alunos[a].xp

\* { name : (threshold, name) in BADGE_TIERS and threshold <= xp }
TierBadges(xp) ==
    { BADGE_TIERS[i][2] : i \in { j \in DOMAIN BADGE_TIERS : BADGE_TIERS[j][1] <= xp } }

LevelOf(xp) == (xp \div 100) + 1

\* C1: after a request that changed a student's xp (or created the student),
\* level = floor(xp / 100) + 1.
C1_LevelFollowsXp ==
    \A a \in DOMAIN alunos : XpChanged(a) => alunos[a].level = LevelOf(alunos[a].xp)

\* C2: after a request that changed a student's xp (or created the student),
\* the student's badges are exactly the tier badges whose threshold is <= xp,
\* whatever badges the student held before.
C2_BadgesAreTierBadges ==
    \A a \in DOMAIN alunos :
        XpChanged(a) => Range(alunos[a].badges) = TierBadges(alunos[a].xp)

\* a student who held the manual badge "Lider" had the xp changed to 100 or
\* more, and holds the tier badges alone
C2_Witness ==
    \E a \in DOMAIN alunos :
        /\ a \in DOMAIN Before
        /\ "Lider" \in Range(Before[a].badges)
        /\ Before[a].xp # alunos[a].xp
        /\ alunos[a].xp >= 100
        /\ "Lider" \notin Range(alunos[a].badges)

\* xp and level of student a after a penalty of d
PenaltyApplied(a, d) ==
    /\ alunos[a].xp = (IF Before[a].xp - d > 0 THEN Before[a].xp - d ELSE 0)
    /\ alunos[a].xp >= 0
    /\ alunos[a].level = LevelOf(alunos[a].xp)

\* C3: penalize_aluno_xp and penalize_guild_xp with a positive deduction d leave
\* each affected student with xp = max(0, old xp - d) and level = floor(xp/100)+1.
C3_PenaltyClampsAtZero ==
    /\ last.op = "penalize_aluno_xp" =>
          PenaltyApplied(last.arg.aluno_id, last.arg.xp_deduction)
    /\ last.op = "penalize_guild_xp" =>
          \A a \in DOMAIN Before :
              Before[a].guilda_id = last.arg.guilda_id =>
                  PenaltyApplied(a, last.arg.xp_deduction)

\* xp = 250 penalized by 400: xp = 0, level = 1, no badges
C3_Witness ==
    /\ last.op = "penalize_aluno_xp"
    /\ last.arg.xp_deduction = 400
    /\ Before[last.arg.aluno_id].xp = 250
    /\ alunos[last.arg.aluno_id].xp = 0
    /\ alunos[last.arg.aluno_id].level = 1
    /\ alunos[last.arg.aluno_id].badges = << >>

\* C4: in every reachable state every student's xp is non-negative.
C4_XpNonNegative == \A a \in DOMAIN alunos : alunos[a].xp >= 0

\* C5: a student's academic_score is never negative.
C5_AcademicScoreNonNegative == \A a \in DOMAIN alunos : alunos[a].academic_score >= 0

\* C6: atividade_completa on a non-completed enrollment with score s sets the
\* enrollment to completed with score_in_quest = s and changes its student by
\* exactly xp += xp_on_completion, total_points += s, academic_score +=
\* points_on_completion, level and badges re-derived; no other student changes.
C6_CompletionRewards ==
    last.op = "atividade_completa" =>
        LET m == last.arg.matricula_id
            s == last.arg.score
            a == matriculas[m].aluno_id
            q == atividades[matriculas[m].atividade_id]
        IN  last.pre.matriculas[m].status # "concluido" =>
              /\ matriculas[m].status = "concluido"
              /\ matriculas[m].score_in_quest = s
              /\ alunos[a].xp = Before[a].xp + q.xp_on_completion
              /\ alunos[a].total_points = Before[a].total_points + s
              /\ alunos[a].academic_score =
                    Before[a].academic_score + q.points_on_completion
              /\ alunos[a].level = LevelOf(alunos[a].xp)
              /\ Range(alunos[a].badges) = TierBadges(alunos[a].xp)
              /\ alunos[a].guilda_id = Before[a].guilda_id
              /\ DOMAIN alunos = DOMAIN Before
              /\ \A b \in DOMAIN alunos \ {a} : alunos[b] = Before[b]

\* xp = 0 and xp_on_completion = 150: xp = 150, level = 2, the 100 badge alone,
\* with a second student in the table
C6_Witness ==
    /\ last.op = "atividade_completa"
    /\ last.pre.matriculas[last.arg.matricula_id].status = "iniciado"
    /\ LET a == matriculas[last.arg.matricula_id].aluno_id
       IN  /\ Before[a].xp = 0
           /\ alunos[a].xp = 150
           /\ alunos[a].level = 2
           /\ alunos[a].badges = <<"Explorador Iniciante">>
           /\ DOMAIN alunos # {a}

\* student a keeps xp, total_points, academic_score and level and gets no entry
Untouched(a) ==
    /\ alunos[a].xp = Before[a].xp
    /\ alunos[a].total_points = Before[a].total_points
    /\ alunos[a].academic_score = Before[a].academic_score
    /\ alunos[a].level = Before[a].level
    /\ NewEntriesOf(a) = {}

\* C7: completing an enrollment that is already completed, through
\* atividade_completa or complete_atividade_for_guild, does not change the
\* student's xp, total_points, academic_score or level and appends no entry.
C7_RewardsAtMostOnce ==
    /\ last.op = "atividade_completa" =>
          LET m == last.arg.matricula_id
          IN  last.pre.matriculas[m].status = "concluido" =>
                  Untouched(last.pre.matriculas[m].aluno_id)
    /\ last.op = "complete_atividade_for_guild" =>
          \A m \in DOMAIN last.pre.matriculas :
              LET e == last.pre.matriculas[m]
              IN  ( /\ e.atividade_id = last.arg.atividade_id
                    /\ e.status = "concluido"
                    /\ Before[e.aluno_id].guilda_id = last.arg.guilda_id
                    /\ \A n \in DOMAIN last.pre.matriculas :
                          ( /\ last.pre.matriculas[n].aluno_id = e.aluno_id
                            /\ last.pre.matriculas[n].atividade_id = e.atividade_id )
                          => last.pre.matriculas[n].status = "concluido" )
                  => Untouched(e.aluno_id)

\* the fields among xp, total_points, academic_score the last request changed
ChangedFields(a) ==
    { f \in {"xp", "total_points", "academic_score"} : alunos[a][f] # Before[a][f] }

\* C9: for every request and every student, each of xp, total_points and
\* academic_score that the request changed produces exactly one new ledger
\* entry for that student, and an unchanged field produces none.
C9_OneEntryPerChangedField ==
    \A a \in DOMAIN alunos \cap DOMAIN Before :
        Cardinality(NewEntriesOf(a)) = Cardinality(ChangedFields(a))

\* the reason recorded by update_aluno
UpdateMotivo(req) ==
    IF "motivo" \in req.set /\ req.motivo # ""
    THEN req.motivo
    ELSE "Alteracao manual via PUT /alunos/{aluno_id}"

\* the new entries of student a with the given kind and deltas
EntriesLike(a, tipo, dxp, dpts, motivo) ==
    { i \in NewEntriesOf(a) :
        /\ NewEntries[i].tipo_transacao = tipo
        /\ NewEntries[i].valor_xp_alterado = dxp
        /\ NewEntries[i].valor_pontos_alterado = dpts
        /\ NewEntries[i].motivo = motivo }

\* C10: update_aluno sets each supplied field among xp, total_points and
\* academic_score to the supplied value; for each of the three it appends one
\* entry with delta new - old when the field was supplied and new # old, and
\* none otherwise; the entry carries the supplied (non-empty) motivo, or the
\* default reason.
C10_UpdateDiffing ==
    last.op = "update_aluno" =>
        LET a == last.arg.aluno_id
            req == last.arg.req
            old == Before[a]
            tipo == [ xp |-> "ajuste_manual_xp",
                      total_points |-> "ajuste_manual_pontos_totais",
                      academic_score |-> "ajuste_manual_academic_score" ]
            logged == { f \in {"xp", "total_points", "academic_score"} :
                          f \in req.set /\ req[f] # old[f] }
        IN  /\ \A f \in {"xp", "total_points", "academic_score"} :
                  /\ f \in req.set => alunos[a][f] = req[f]
                  /\ f \notin req.set => alunos[a][f] = old[f]
                  /\ f \in logged =>
                        Cardinality(EntriesLike(a, tipo[f],
                            IF f = "xp" THEN req[f] - old[f] ELSE 0,
                            IF f = "xp" THEN 0 ELSE req[f] - old[f],
                            UpdateMotivo(req))) = 1
                  /\ f \notin logged =>
                        \A i \in DOMAIN NewEntries :
                            NewEntries[i].tipo_transacao # tipo[f]
            /\ Len(NewEntries) = Cardinality(logged)

\* total_points 50 -> 50: zero entries
C10_Witness ==
    /\ last.op = "update_aluno"
    /\ last.arg.req.set = {"total_points", "motivo"}
    /\ Before[last.arg.aluno_id].total_points = 50
    /\ alunos[last.arg.aluno_id].total_points = 50
    /\ NewEntries = << >>

\* C11: every step that changes a student's xp, total_points or academic_score
\* also appends a ledger entry for that student, and every step that changes a
\* student's level leaves the badges equal to the tier badges of the xp: the
\* fields, the ledger entries and the badges of one request are committed
\* together.
C11_CommitsTogether ==
    [][ \A a \in DOMAIN alunos \cap DOMAIN alunos' :
          /\ ( \/ alunos'[a].xp # alunos[a].xp
               \/ alunos'[a].total_points # alunos[a].total_points
               \/ alunos'[a].academic_score # alunos[a].academic_score )
             => \E i \in (Len(historico) + 1) .. Len(historico') :
                    historico'[i].aluno_id = a
          /\ alunos'[a].level # alunos[a].level
             => Range(alunos'[a].badges) = TierBadges(alunos'[a].xp) ]_vars

\* the students after request (op, arg) runs alone on the students A, when the
\* enrollments done are already completed
SerialAlunos(op, arg, A, done) ==
    [ a \in DOMAIN A |->
        IF CASE op = "atividade_completa" -> matriculas[arg.matricula_id].aluno_id = a
             [] op = "complete_atividade_for_guild" ->
                    /\ A[a].guilda_id = arg.guilda_id
                    /\ MatriculaDoAluno(a, arg.atividade_id) # NullId
                    /\ MatriculaDoAluno(a, arg.atividade_id) \notin done
             [] op = "penalize_guild_xp" -> A[a].guilda_id = arg.guilda_id
             [] OTHER -> arg.aluno_id = a
        THEN Assigned(op, arg, A[a])
        ELSE A[a] ]

\* the enrollments completed once request (op, arg) has run
SerialDone(op, arg, done) ==
    CASE op = "atividade_completa" -> done \cup {arg.matricula_id}
      [] op = "complete_atividade_for_guild" ->
            done \cup { m \in DOMAIN matriculas :
                          /\ matriculas[m].atividade_id = arg.atividade_id
                          /\ alunos[matriculas[m].aluno_id].guilda_id = arg.guilda_id }
      [] OTHER -> done

\* the students after session p's request and then session q's, from StepsAlunos
OneAfterTheOther(p, q) ==
    SerialAlunos(sessions[q].op, sessions[q].arg,
        SerialAlunos(sessions[p].op, sessions[p].arg, StepsAlunos, {}),
        SerialDone(sessions[p].op, sessions[p].arg, {}))

SamePoints(A, B) ==
    \A a \in DOMAIN A :
        /\ A[a].xp = B[a].xp
        /\ A[a].total_points = B[a].total_points
        /\ A[a].academic_score = B[a].academic_score

\* C12: when two requests among atividade_completa, complete_atividade_for_guild,
\* penalize_aluno_xp, penalize_guild_xp and add_quest_academic_points have run
\* to their end, whatever the interleaving of their steps, every student's xp,
\* total_points and academic_score are those of running the two one after the
\* other in one of the two orders.
C12_NoLostUpdate ==
    \A p, q \in DOMAIN sessions :
        ( /\ p # q
          /\ sessions[p].pc = "done"
          /\ sessions[q].pc = "done"
          /\ sessions[p].op # "update_aluno"
          /\ sessions[q].op # "update_aluno" )
        => \/ SamePoints(alunos, OneAfterTheOther(p, q))
           \/ SamePoints(alunos, OneAfterTheOther(q, p))

\* the students of the guilds of class t, and those guilds, before the last
\* request
GuildasDaTurma(t) ==
    { g \in DOMAIN last.pre.guildas : last.pre.guildas[g].turma_id = t }

AlunosDaTurma(t) ==
    { a \in DOMAIN Before : Before[a].guilda_id \in GuildasDaTurma(t) }

\* the rows of a sequence of ledger entries that belong to none of the students
RECURSIVE EntriesNotOf(_, _)
EntriesNotOf(entries, ids) ==
    IF entries = << >> THEN << >>
    ELSE (IF Head(entries).aluno_id \in ids THEN << >> ELSE <<Head(entries)>>)
         \o EntriesNotOf(Tail(entries), ids)

\* C13: after delete_turma succeeds no guild of the class, no student of those
\* guilds and no enrollment or ledger entry of those students remains, and the
\* guilds, students, enrollments and ledger entries of the other classes are
\* unchanged.
C13_DeleteTurmaCascades ==
    (last.op = "delete_turma" /\ last.status = 200) =>
        LET gone == AlunosDaTurma(last.arg.turma_id)
            gs == GuildasDaTurma(last.arg.turma_id)
        IN  /\ gs \cap DOMAIN guildas = {}
            /\ gone \cap DOMAIN alunos = {}
            /\ \A m \in DOMAIN matriculas : matriculas[m].aluno_id \notin gone
            /\ \A i \in DOMAIN historico : historico[i].aluno_id \notin gone
            /\ \A g \in DOMAIN last.pre.guildas \ gs :
                  g \in DOMAIN guildas /\ guildas[g] = last.pre.guildas[g]
            /\ \A a \in DOMAIN Before \ gone :
                  a \in DOMAIN alunos /\ alunos[a] = Before[a]
            /\ \A m \in DOMAIN last.pre.matriculas :
                  last.pre.matriculas[m].aluno_id \notin gone =>
                      m \in DOMAIN matriculas
                      /\ matriculas[m] = last.pre.matriculas[m]
            /\ EntriesNotOf(historico, gone) = EntriesNotOf(last.pre.historico, gone)

\* the students that complete_atividade_for_guild is to reward: those of the
\* guild that had, before the request, an enrollment in the activity that was
\* not completed
GuildTargets ==
    { a \in DOMAIN Before :
        /\ Before[a].guilda_id = last.arg.guilda_id
        /\ \E m \in DOMAIN last.pre.matriculas :
              /\ last.pre.matriculas[m].aluno_id = a
              /\ last.pre.matriculas[m].atividade_id = last.arg.atividade_id
              /\ last.pre.matriculas[m].status # "concluido" }

\* C14: complete_atividade_for_guild changes exactly the students of the guild
\* whose enrollment in the activity was not completed; every other student
\* keeps xp, level, total_points, academic_score, badges, enrollments and
\* ledger, and no enrollment is created.
C14_GuildCompletionTouchesOnlyTargets ==
    (last.op = "complete_atividade_for_guild" /\ last.status = 200) =>
        /\ DOMAIN matriculas = DOMAIN last.pre.matriculas
        /\ \A a \in GuildTargets : alunos[a] # Before[a]
        /\ \A a \in DOMAIN Before \ GuildTargets :
              /\ alunos[a] = Before[a]
              /\ NewEntriesOf(a) = {}
              /\ \A m \in DOMAIN matriculas :
                    matriculas[m].aluno_id = a =>
                        matriculas[m] = last.pre.matriculas[m]

\* C15: the list returned by complete_atividade_for_guild holds exactly the
\* enrollments the request changed to completed, and none that it skipped.
C15_ReturnsOnlyChanged ==
    (last.op = "complete_atividade_for_guild" /\ last.status = 200) =>
        last.returned =
            { m \in DOMAIN matriculas :
                /\ last.pre.matriculas[m].status # "concluido"
                /\ matriculas[m].status = "concluido" }

\* C16: penalize_aluno_xp and penalize_guild_xp called with xp_deduction <= 0
\* answer 400 and leave every student and the ledger as they were, whether or
\* not the student or the guild exists.
C16_InvalidDeductionRejected ==
    ( /\ last.op \in {"penalize_aluno_xp", "penalize_guild_xp"}
      /\ last.arg.xp_deduction <= 0 )
    => /\ last.status = 400
       /\ alunos = Before
       /\ historico = last.pre.historico

\* a deduction of 0 on a student that exists and has xp to lose
C16_Witness ==
    /\ last.op = "penalize_aluno_xp"
    /\ last.arg.xp_deduction = 0
    /\ last.arg.aluno_id \in DOMAIN alunos
    /\ alunos[last.arg.aluno_id].xp = 150
    /\ last.status = 400

IsPrefix(s, t) == Len(s) <= Len(t) /\ SubSeq(t, 1, Len(s)) = s

\* the students a step deletes through delete_aluno, delete_guilda or
\* delete_turma
DeletedAlunos ==
    IF last'.op \in {"delete_aluno", "delete_guilda", "delete_turma"}
    THEN DOMAIN alunos \ DOMAIN alunos'
    ELSE {}

\* C17: the ledger is append-only: a step keeps every entry with all its fields
\* and in its place, except that the entries of students deleted by
\* delete_aluno, delete_guilda or delete_turma may go with them.
C17_LedgerAppendOnly ==
    [][ \E gone \in SUBSET DeletedAlunos :
            IsPrefix(EntriesNotOf(historico, gone), historico') ]_vars

\* student 1, who owns ledger entries, has just been deleted
C17_Witness ==
    /\ last.op = "delete_aluno"
    /\ last.status = 200
    /\ last.arg.aluno_id = 1
    /\ 1 \notin DOMAIN alunos
    /\ Len(last.pre.historico) = 2

\* the last request appended exactly one entry for student a, and it records
\* an xp change of delta
OneEntryWithXp(a, delta) ==
    /\ Cardinality(NewEntriesOf(a)) = 1
    /\ \A i \in NewEntriesOf(a) : NewEntries[i].valor_xp_alterado = delta

\* C18: a penalty appends exactly one ledger entry per affected student, and
\* the entry records -xp_deduction even when the clamp at 0 made the change in
\* xp smaller.
C18_PenaltyEntryRecordsDeduction ==
    /\ (last.op = "penalize_aluno_xp" /\ last.status = 200) =>
          /\ Len(NewEntries) = 1
          /\ OneEntryWithXp(last.arg.aluno_id, -last.arg.xp_deduction)
    /\ (last.op = "penalize_guild_xp" /\ last.status = 200) =>
          /\ \A a \in DOMAIN Before :
                IF Before[a].guilda_id = last.arg.guilda_id
                THEN OneEntryWithXp(a, -last.arg.xp_deduction)
                ELSE NewEntriesOf(a) = {}
          /\ Len(NewEntries) =
                Cardinality({ a \in DOMAIN Before :
                                Before[a].guilda_id = last.arg.guilda_id })

\* a guild penalty of 400 on a student with xp 250: the xp falls by 250, the
\* entry says -400
C18_Witness ==
    /\ last.op = "penalize_guild_xp"
    /\ last.status = 200
    /\ \E a \in DOMAIN Before :
          /\ Before[a].guilda_id = last.arg.guilda_id
          /\ Before[a].xp = 250
          /\ alunos[a].xp = 0
          /\ \E i \in NewEntriesOf(a) : NewEntries[i].valor_xp_alterado = -400

\* the last request was an update_aluno that supplied badges and was served
BadgesSupplied ==
    /\ last.op = "update_aluno"
    /\ last.status = 200
    /\ "badges" \in last.arg.req.set

\* C19 as stated: when update_aluno is called with a badges list, the badges
\* after the call are exactly the supplied list, whatever other fields,
\* xp included, are supplied with it.
C19_SuppliedBadgesWin ==
    BadgesSupplied => alunos[last.arg.aluno_id].badges = last.arg.req.badges

\* C19 amended: the supplied list is stored as it is, with no tier derivation,
\* when xp is not supplied with it; when xp is supplied in the same call, the
\* badges after the call are, as a set, the tier badges of the supplied xp.
C19_SuppliedBadgesWinWithoutXp ==
    BadgesSupplied =>
        LET req == last.arg.req
            after == alunos[last.arg.aluno_id]
        IN  IF "xp" \notin req.set
            THEN after.badges = req.badges
            ELSE /\ after.xp = req.xp
                 /\ Range(after.badges) = TierBadges(req.xp)

\* badges alone are supplied for a student whose xp of 250 has two tier
\* badges: the list is stored with no tier derivation
C19_Witness ==
    /\ BadgesSupplied
    /\ last.arg.req.set = {"badges"}
    /\ Before[last.arg.aluno_id].xp = 250
    /\ Cardinality(Range(Before[last.arg.aluno_id].badges)) = 2
    /\ alunos[last.arg.aluno_id].badges = <<"Lider">>

\* request op with arguments arg names, by id, a student, guild, class,
\* activity or enrollment that is not stored
NamesMissingId(op, arg) ==
    \/ /\ op \in {"update_aluno", "delete_aluno", "penalize_aluno_xp",
                  "add_quest_academic_points", "award_badge_to_aluno",
                  "create_matricula"}
       /\ arg.aluno_id \notin DOMAIN alunos
    \/ /\ op = "update_aluno"
       /\ "guilda_id" \in arg.req.set
       /\ arg.req.guilda_id \notin DOMAIN guildas
    \/ /\ op = "create_aluno"
       /\ arg.guilda_id # NullId
       /\ arg.guilda_id \notin DOMAIN guildas
    \/ /\ op \in {"delete_guilda", "complete_atividade_for_guild"}
       /\ arg.guilda_id \notin DOMAIN guildas
    \/ /\ op = "delete_turma"
       /\ arg.turma_id \notin DOMAIN turmas
    \/ /\ op \in {"create_matricula", "complete_atividade_for_guild"}
       /\ arg.atividade_id \notin DOMAIN atividades
    \/ /\ op = "atividade_completa"
       /\ arg.matricula_id \notin DOMAIN matriculas

\* C20: a request that names, by id, a student, guild, class, activity or
\* enrollment that does not exist is answered with not found (404) and leaves
\* students, guilds, classes, activities, enrollments and ledger as they were.
C20_MissingIdNotFound ==
    [][ NamesMissingId(last'.op, last'.arg) =>
            /\ last'.status = 404
            /\ UNCHANGED <<turmas, guildas, alunos, atividades, matriculas,
                           historico>> ]_vars

\* C21: a lookup by part of the name that is meant to identify one student
\* (get_historico_aluno_xp_pontos by nome_aluno, read_matriculas_por_nome_aluno)
\* answers with an error that lists the candidates when the name matches more
\* than one student, and never with the data of one of the matches.
C21_AmbiguousNameRejected ==
    ( /\ last.op \in {"get_historico_aluno_xp_pontos",
                      "read_matriculas_por_nome_aluno"}
      /\ ~Truthy(last.arg.aluno_id)
      /\ last.arg.nome_aluno # << >>
      /\ Cardinality(AlunosByNome(last.arg.nome_aluno)) > 1 )
    => /\ last.status = 400
       /\ last.returned = AlunosByNome(last.arg.nome_aluno)

Unique(table) ==
    \A j, k \in DOMAIN table : table[j].nome = table[k].nome => j = k

\* the request of the step would give two classes, or two guilds, one name
WouldDuplicate(op, arg) ==
    \/ op = "create_turma" /\ NameTaken(turmas, arg.nome)
    \/ /\ op = "update_turma"
       /\ arg.turma_id \in DOMAIN turmas
       /\ "nome" \in arg.req.set
       /\ \E t \in DOMAIN turmas \ {arg.turma_id} : turmas[t].nome = arg.req.nome
    \/ /\ op = "create_guilda"
       /\ arg.turma_id \in DOMAIN turmas
       /\ NameTaken(guildas, arg.nome)
    \/ /\ op = "update_guilda"
       /\ arg.guilda_id \in DOMAIN guildas
       /\ "nome" \in arg.req.set
       /\ \E g \in DOMAIN guildas \ {arg.guilda_id} : guildas[g].nome = arg.req.nome

\* C22: after any sequence of create_turma, update_turma, create_guilda and
\* update_guilda no two classes and no two guilds have the same name; a create
\* or rename that would produce a duplicate is answered 400 and changes
\* nothing.
C22_NamesStayUnique ==
    [][ /\ Unique(turmas') /\ Unique(guildas')
        /\ WouldDuplicate(last'.op, last'.arg) =>
              /\ last'.status = 400
              /\ UNCHANGED <<turmas, guildas, alunos, atividades, matriculas,
                             historico>> ]_vars

\* a guild is renamed to the name of another guild and the request is refused
C22_Witness ==
    /\ last.op = "update_guilda"
    /\ last.status = 400
    /\ last.arg.guilda_id = 1
    /\ last.arg.req.nome = "Dragao"
    /\ guildas[1].nome = "Fenix"
    /\ \E g \in DOMAIN guildas : guildas[g].nome = "Dragao"

BulkOps == { "create_bulk_matriculas_by_guild", "create_bulk_matriculas_by_turma" }

\* the students a bulk enrollment is for
BulkTargets(op, arg) ==
    IF op = "create_bulk_matriculas_by_guild"
    THEN { a \in DOMAIN alunos : alunos[a].guilda_id = arg.guilda_id }
    ELSE { a \in DOMAIN alunos :
             /\ alunos[a].guilda_id \in DOMAIN guildas
             /\ guildas[alunos[a].guilda_id].turma_id = arg.turma_id }

\* the enrollments the last request created
NewMatriculas == DOMAIN matriculas \ DOMAIN last.pre.matriculas

\* what a bulk enrollment leaves: the old rows as they were, one started row
\* with score 0 for each target without one, and no other new row
BulkPost ==
    last.op \in BulkOps =>
        /\ \A m \in DOMAIN last.pre.matriculas :
              m \in DOMAIN matriculas /\ matriculas[m] = last.pre.matriculas[m]
        /\ \A m \in NewMatriculas :
              /\ matriculas[m].aluno_id \in BulkTargets(last.op, last.arg)
              /\ matriculas[m].atividade_id = last.arg.curso_id
              /\ matriculas[m].status = "iniciado"
              /\ matriculas[m].score_in_quest = 0
        /\ last.status = 200 =>
              \A a \in BulkTargets(last.op, last.arg) :
                 Cardinality({ m \in NewMatriculas : matriculas[m].aluno_id = a })
                 = IF \E m \in DOMAIN last.pre.matriculas :
                         /\ last.pre.matriculas[m].aluno_id = a
                         /\ last.pre.matriculas[m].atividade_id = last.arg.curso_id
                   THEN 0 ELSE 1

\* C24: a bulk enrollment by guild or by class creates one started enrollment
\* with score 0 for each student of the guild or class that has none in the
\* activity and none for a student that has one; the same call made again
\* creates none and leaves every enrollment as it was.
C24_BulkEnrollsOnce ==
    [][ /\ BulkPost'
        /\ ( /\ last.op \in BulkOps
             /\ last.status = 200
             /\ last'.op = last.op
             /\ last'.arg = last.arg ) => matriculas' = matriculas ]_vars

\* the guild is enrolled twice in a row: the first call enrolled student 2
\* beside the enrollment student 1 had, the second found nothing to add
C24_Witness ==
    /\ last.op = "create_bulk_matriculas_by_guild"
    /\ last.status = 200
    /\ last.arg = [ curso_id |-> 1, guilda_id |-> 1 ]
    /\ last.pre.matriculas = matriculas
    /\ Cardinality(DOMAIN matriculas) = 2
    /\ \E m \in DOMAIN matriculas :
          matriculas[m] = [ aluno_id |-> 2, atividade_id |-> 1,
                            score_in_quest |-> 0, status |-> "iniciado" ]
    /\ matriculas[1].status = "concluido"

\* C25: after any sequence of create_matricula and of bulk enrollments by
\* guild or by class a student has at most one enrollment in an activity.
C25_OneEnrollmentPerPair ==
    \A m, n \in DOMAIN matriculas :
       ( /\ matriculas[m].aluno_id = matriculas[n].aluno_id
         /\ matriculas[m].atividade_id = matriculas[n].atividade_id ) => m = n

\* C23: for every xp and stored list, after _check_and_award_level_badges the
\* badges are, as a set, the names of the tiers whose threshold is <= xp; the
\* call returns True exactly when the stored set differed from that set and
\* returns False with the stored list untouched when it did not; a second call
\* returns False.
C23_BadgeCheckIsExact ==
    last.op = "_check_and_award_level_badges" =>
        LET a == last.arg.aluno_id
            stored == Before[a].badges
        IN  /\ Range(alunos[a].badges) = TierBadges(alunos[a].xp)
            /\ last.returned = (Range(stored) # TierBadges(Before[a].xp))
            /\ ~last.returned => alunos[a] = Before[a]
            /\ nops >= 2 => ~last.returned

\* the first call on a stored list that goes beyond the xp's tiers
C23_Witness ==
    /\ last.op = "_check_and_award_level_badges"
    /\ last.returned
    /\ Before[1].xp = 100
    /\ Before[1].badges = <<"Explorador Bronze", "Explorador Iniciante">>
    /\ alunos[1].badges = <<"Explorador Iniciante">>

\* C26: award_badge_to_aluno for a badge the student does not hold adds the
\* badge and appends exactly one ledger entry with xp delta 0 and points delta
\* 0, leaving xp, level, total_points and academic_score as they were; for a
\* badge already held it changes nothing and appends nothing.
C26_AwardBadgeOnce ==
    (last.op = "award_badge_to_aluno" /\ last.status = 200) =>
        LET a == last.arg.aluno_id
            badge == last.arg.badge_name
        IN  /\ \A b \in DOMAIN alunos \ {a} : b \in DOMAIN Before /\ alunos[b] = Before[b]
            /\ IF badge \notin Range(Before[a].badges)
               THEN /\ alunos[a] = [Before[a] EXCEPT !.badges = Append(@, badge)]
                    /\ Len(NewEntries) = 1
                    /\ NewEntries[1].aluno_id = a
                    /\ NewEntries[1].valor_xp_alterado = 0
                    /\ NewEntries[1].valor_pontos_alterado = 0
               ELSE /\ alunos[a] = Before[a]
                    /\ NewEntries = << >>

\* the badge is awarded a second time: the first award is in the ledger and
\* the repeated request left the student and the ledger as they were
C26_Witness ==
    /\ last.op = "award_badge_to_aluno"
    /\ last.status = 200
    /\ last.arg.badge_name \in Range(Before[last.arg.aluno_id].badges)
    /\ NewEntries = << >>
    /\ \E i \in DOMAIN historico :
          /\ historico[i].tipo_transacao = "concessao_badge_manual"
          /\ historico[i].aluno_id = last.arg.aluno_id

\* C27: penalize_guild_xp on guild G with a positive deduction applies it to
\* every student whose guild is G and appends one ledger entry for each; the
\* students of other guilds and of no guild keep xp, level and badges and get
\* no entry; total_points and academic_score of every student stay the same.
C27_GuildPenaltyFrame ==
    (last.op = "penalize_guild_xp" /\ last.status = 200) =>
        \A a \in DOMAIN alunos :
           /\ a \in DOMAIN Before
           /\ alunos[a].total_points = Before[a].total_points
           /\ alunos[a].academic_score = Before[a].academic_score
           /\ alunos[a].guilda_id = Before[a].guilda_id
           /\ IF Before[a].guilda_id = last.arg.guilda_id
              THEN /\ PenaltyApplied(a, last.arg.xp_deduction)
                   /\ Cardinality(NewEntriesOf(a)) = 1
              ELSE /\ alunos[a].xp = Before[a].xp
                   /\ alunos[a].level = Before[a].level
                   /\ alunos[a].badges = Before[a].badges
                   /\ NewEntriesOf(a) = {}

\* guild Fenix is penalized: its student lost xp, while a student of guild
\* Dragao with xp and a tier badge of their own was there to be left alone
C27_Witness ==
    /\ last.op = "penalize_guild_xp"
    /\ last.status = 200
    /\ \E a \in DOMAIN alunos :
          /\ Before[a].guilda_id = last.arg.guilda_id
          /\ alunos[a].xp < Before[a].xp
    /\ \E b \in DOMAIN alunos :
          /\ Before[b].guilda_id \notin {last.arg.guilda_id, NullId}
          /\ Before[b].xp > 0
          /\ Before[b].badges # << >>
    /\ Len(NewEntries) = 1

\* C28: the status of an enrollment is always "iniciado" or "concluido"; an
\* enrollment is created as "iniciado" with score_in_quest 0; the only
\* transition is from "iniciado" to "concluido", and a completed enrollment
\* never returns to "iniciado".
C28_StatusOnlyAdvances ==
    [][ \A m \in DOMAIN matriculas' :
           /\ matriculas'[m].status \in {"iniciado", "concluido"}
           /\ m \notin DOMAIN matriculas =>
                 /\ matriculas'[m].status = "iniciado"
                 /\ matriculas'[m].score_in_quest = 0
           /\ (m \in DOMAIN matriculas /\ matriculas[m].status = "concluido") =>
                 matriculas'[m].status = "concluido" ]_vars

\* an enrollment a request created has been completed, and a bulk enrollment
\* of the student's guild then found it and left it completed
C28_Witness ==
    /\ last.op \in BulkOps
    /\ last.status = 200
    /\ \E m \in DOMAIN matriculas \ {1} :
          /\ matriculas[m].status = "concluido"
          /\ matriculas[m].aluno_id \in BulkTargets(last.op, last.arg)
          /\ matriculas[m].atividade_id = last.arg.curso_id

\* C29: in every state reached through creates, updates and delete_aluno,
\* delete_guilda and delete_turma, every enrollment and every ledger entry
\* references an existing student, every enrollment an existing activity,
\* every student's guilda_id is null or an existing guild, and every guild
\* references an existing class; deleting a guild removes its students with
\* their enrollments and ledger entries.
C29_ReferentialIntegrity ==
    /\ \A m \in DOMAIN matriculas :
          /\ matriculas[m].aluno_id \in DOMAIN alunos
          /\ matriculas[m].atividade_id \in DOMAIN atividades
    /\ \A i \in DOMAIN historico : historico[i].aluno_id \in DOMAIN alunos
    /\ \A a \in DOMAIN alunos :
          alunos[a].guilda_id = NullId \/ alunos[a].guilda_id \in DOMAIN guildas
    /\ \A g \in DOMAIN guildas : guildas[g].turma_id \in DOMAIN turmas
    /\ (last.op = "delete_guilda" /\ last.status = 200) =>
          \A a \in DOMAIN Before :
             Before[a].guilda_id = last.arg.guilda_id => a \notin DOMAIN alunos

\* the sum of valor_xp_alterado over the ledger entries of student a
RECURSIVE LedgerXp(_, _)
LedgerXp(entries, a) ==
    IF entries = << >> THEN 0
    ELSE (IF Head(entries).aluno_id = a THEN Head(entries).valor_xp_alterado ELSE 0)
         + LedgerXp(Tail(entries), a)

\* the xp a student was created with: every student of InitOrg and every
\* student create_aluno adds under NextOrg is created with xp 0
XpCreatedWith(a) == 0

\* C30: in every reachable state the xp of a student is the xp the student was
\* created with plus the sum of valor_xp_alterado over the student's ledger
\* entries, after completions, penalties and update_aluno.
C30_XpIsLedgerSum ==
    \A a \in DOMAIN alunos :
       alunos[a].xp = XpCreatedWith(a) + LedgerXp(historico, a)

====
